---- MODULE Spec2Model ----
(***************************************************************************)
(* Session memory of openai_langchain_deepagent: the SessionState record   *)
(* (state.py), the session manager's functions (session_manager.py) and    *)
(* the inspector's export (session_inspector.py), over a heap of Python    *)
(* objects so that copies, aliases and in-place changes are visible.       *)
(*                                                                         *)
(* Strings on which the code works character by character (merchant ids,   *)
(* topics) are sequences of one-character strings; the other strings are   *)
(* atoms.  Time is counted in ticks of 1/TicksPerSecond second.            *)
(***************************************************************************)
EXTENDS Integers, Sequences, FiniteSets, TLC

VARIABLES
    heap,     \* the Python objects alive: heap[i] is a state dict, a list or a dict
    cur,      \* the state the caller holds (a reference into heap), 0 before the session starts
    intact,   \* whether the state passed to the last call has, after the call, the
              \* value it had before it (containers included)
    shared,   \* the container fields in which the state the last call returned holds
              \* the very object the state passed in holds
    fresh,    \* whether the state the last call returned is another object than the
              \* one passed in
    op,       \* the last step: the function called and its arguments, or a tick
    ret,      \* what that call returned
    clock,    \* datetime.now(timezone.utc), in ticks
    init,     \* the arguments initialize_session_state was called with
    nops,     \* number of calls made on the session since it started
    nticks,   \* number of clock advances
    db        \* the SQLite checkpoint database file

vars == <<heap, cur, intact, shared, fresh, op, ret, clock, init, nops, nticks, db>>

----------------------------------------------------------------------------
(* Bounds of the model *)

MaxOps == 3
MaxTicks == 2
TicksPerSecond == 2
\* The most fragments a text is made of
MaxFragments == 3

\* How far the clock may advance between two calls, in ticks.
ClockSteps == {1, 2}

----------------------------------------------------------------------------
(* Values *)

None == "<None>"

MCH == <<"m", "c", "h", "_">>

\* str.startswith
startswith(s, p) == Len(s) >= Len(p) /\ SubSeq(s, 1, Len(p)) = p

\* str.lower on the characters the inputs use
lower_char(c) ==
    CASE c = "A" -> "a"
      [] c = "B" -> "b"
      [] c = "C" -> "c"
      [] c = "M" -> "m"
      [] c = "H" -> "h"
      [] c = "E" -> "e"
      [] c = "R" -> "r"
      [] c = "N" -> "n"
      [] c = "T" -> "t"
      [] c = "I" -> "i"
      [] c = "D" -> "d"
      [] c = "U" -> "u"
      [] c = "Y" -> "y"
      [] c = "S" -> "s"
      [] c = "O" -> "o"
      [] c = "F" -> "f"
      [] c = "L" -> "l"
      [] OTHER -> c

lower(s) == [i \in 1..Len(s) |-> lower_char(s[i])]

\* str.replace(" ", "_")
replace_space(s) == [i \in 1..Len(s) |-> IF s[i] = " " THEN "_" ELSE s[i]]

\* datetime.isoformat(): the fraction of a second is left out when it is zero
isoformat(t) ==
    IF t % TicksPerSecond = 0
    THEN <<t \div TicksPerSecond>>
    ELSE <<t \div TicksPerSecond, t % TicksPerSecond>>

\* datetime.fromisoformat(): both forms parse; anything else raises ValueError
parses(s) ==
    \/ Len(s) = 1 /\ s[1] \in Nat
    \/ Len(s) = 2 /\ s[1] \in Nat /\ s[2] \in 1..(TicksPerSecond - 1)

fromisoformat(s) ==
    IF Len(s) = 1 THEN s[1] * TicksPerSecond ELSE s[1] * TicksPerSecond + s[2]

\* (a - b).total_seconds(), in ticks
total_seconds(a, b) == a - b

\* an int number of seconds, in ticks
Seconds(n) == n * TicksPerSecond

----------------------------------------------------------------------------
(* Python objects: dicts keep insertion order, so a dict is a sequence of  *)
(* [k, v] items with distinct keys; a list is a sequence; a SessionState   *)
(* is a record whose container fields hold references.                     *)

KeyList(d) == [i \in 1..Len(d) |-> d[i].k]
Keys(d) == {d[i].k : i \in 1..Len(d)}
Get(d, key) == d[CHOOSE i \in 1..Len(d) : d[i].k = key].v

\* d[key] = v
Put(d, key, v) ==
    IF key \in Keys(d)
    THEN [i \in 1..Len(d) |-> IF d[i].k = key THEN [k |-> key, v |-> v] ELSE d[i]]
    ELSE Append(d, [k |-> key, v |-> v])

Elems(l) == {l[i] : i \in 1..Len(l)}

RefFields ==
    <<"messages", "cached_data", "cached_at", "topics_discussed",
      "recommendations", "pending_questions", "advisor_notes", "working_data">>

IsRefField(f) == \E i \in 1..Len(RefFields) : RefFields[i] = f

\* x.copy(): a new object with the same items (shallow)
Copy(h, r) == [heap |-> Append(h, h[r]), ref |-> Len(h) + 1]

\* a new object
New(h, obj) == [heap |-> Append(h, obj), ref |-> Len(h) + 1]

\* state[field] = v
SetField(h, r, field, v) == [h EXCEPT ![r] = [@ EXCEPT ![field] = v]]

\* the value of a state with its containers read through
Deep(h, s) ==
    [f \in DOMAIN h[s] |-> IF IsRefField(f) THEN h[h[s][f]] ELSE h[s][f]]

\* The references a state holds, in field order
RefsOf(h, s) == [i \in 1..Len(RefFields) |-> h[s][RefFields[i]]]

RECURSIVE Dedup(_)
Dedup(seq) ==
    IF seq = <<>> THEN <<>>
    ELSE LET rest == Dedup(SubSeq(seq, 1, Len(seq) - 1))
             last == seq[Len(seq)]
         IN  IF last \in Elems(rest) THEN rest ELSE Append(rest, last)

RECURSIVE Reach(_, _)
Reach(h, roots) ==
    IF roots = <<>> THEN <<>>
    ELSE <<Head(roots)>> \o RefsOf(h, Head(roots)) \o Reach(h, Tail(roots))

\* Objects no root reaches are garbage; the others are renumbered in the order
\* the roots reach them (an address carries no meaning beyond identity).
Live(h, roots) == Dedup(Reach(h, roots))
Addr(order, x) == CHOOSE i \in 1..Len(order) : order[i] = x
Collect(h, roots) ==
    LET order == Live(h, roots)
    IN  [i \in 1..Len(order) |->
            IF order[i] \in Elems(roots)
            THEN [f \in DOMAIN h[order[i]] |->
                     IF IsRefField(f) THEN Addr(order, h[order[i]][f])
                     ELSE h[order[i]][f]]
            ELSE h[order[i]]]

----------------------------------------------------------------------------
(* session_manager.py.  Each function takes the heap and returns the heap  *)
(* after the call together with what the call returns.                     *)

DEFAULT_CACHE_CONFIG ==
    << [k |-> <<"profile", "_ttl_seconds">>, v |-> 1800],
       [k |-> <<"metrics", "_ttl_seconds">>, v |-> 300],
       [k |-> <<"transactions", "_ttl_seconds">>, v |-> 60],
       [k |-> <<"alerts", "_ttl_seconds">>, v |-> 30] >>

\* \d and \s of the re module, on the characters the inputs use
isdigit(c) == c \in {"0", "1", "2", "3", "4", "5", "6", "7", "8", "9"}
isspace(c) == c \in {" ", "\t"}

MERCHANT == <<"m", "e", "r", "c", "h", "a", "n", "t">>

\* The four patterns of lines 90-95 without their group (\d+), which ends
\* each: a letter stands for itself, "\\s+" for a run of white space
patterns ==
    << MCH,
       MERCHANT \o <<"\\s+">> \o <<"i", "d">> \o <<"\\s+">>,
       MERCHANT \o <<"\\s+">>,
       <<"m">> >>

\* The first position from i on that holds no white space (no digit)
skip_spaces(text, i) ==
    CHOOSE e \in i..(Len(text) + 1) :
        /\ \A k \in i..(e - 1) : isspace(text[k])
        /\ e = Len(text) + 1 \/ ~isspace(text[e])
skip_digits(text, i) ==
    CHOOSE e \in i..(Len(text) + 1) :
        /\ \A k \in i..(e - 1) : isdigit(text[k])
        /\ e = Len(text) + 1 \/ ~isdigit(text[e])

\* The position after pat[j..] matched at text[i..] under re.IGNORECASE, 0 if
\* it does not match there
RECURSIVE match_at(_, _, _, _)
match_at(text, i, pat, j) ==
    IF j > Len(pat) THEN i
    ELSE IF i > Len(text) THEN 0
    ELSE IF pat[j] = "\\s+"
    THEN IF isspace(text[i]) THEN match_at(text, skip_spaces(text, i), pat, j + 1) ELSE 0
    ELSE IF lower_char(text[i]) = pat[j] THEN match_at(text, i + 1, pat, j + 1)
    ELSE 0

\* re.search(pattern, text, re.IGNORECASE): the leftmost match, its group the
\* longest run of digits there
re_search(pat, text) ==
    LET group_at(i) == match_at(text, i, pat, 1)
        starts == { i \in 1..Len(text) :
                      /\ group_at(i) # 0
                      /\ group_at(i) <= Len(text)
                      /\ isdigit(text[group_at(i)]) }
        start == CHOOSE i \in starts : \A k \in starts : i <= k
    IN  IF starts = {} THEN [matched |-> FALSE, start |-> 0, group |-> <<>>]
        ELSE [ matched |-> TRUE, start |-> start,
               group |-> SubSeq(text, group_at(start), skip_digits(text, group_at(start)) - 1) ]

\* Optional[str] as a record: found is false for None
Found(value) == [found |-> TRUE, value |-> value]
NotFound == [found |-> FALSE, value |-> <<>>]

\* the pattern whose match starts first in the text, whatever its rank
extract_merchant_id_leftmost(text) ==
    LET hits == { k \in 1..Len(patterns) : re_search(patterns[k], text).matched }
        first == CHOOSE k \in hits :
                    \A n \in hits :
                        \/ re_search(patterns[k], text).start < re_search(patterns[n], text).start
                        \/ /\ re_search(patterns[k], text).start = re_search(patterns[n], text).start
                           /\ k <= n
    IN  IF hits = {} THEN NotFound
        ELSE Found(MCH \o re_search(patterns[first], text).group)

\* lines 97-104: the first pattern of the list that matches
extract_merchant_id(text) ==
    LET hits == { k \in 1..Len(patterns) : re_search(patterns[k], text).matched }
        first == CHOOSE k \in hits : \A n \in hits : k <= n
    IN  IF hits = {} THEN NotFound
        ELSE Found(MCH \o re_search(patterns[first], text).group)

\* the prefix added whether or not it is there
normalize_always_prefix(merchant_id) == MCH \o merchant_id

\* if not merchant_id.startswith("mch_"): merchant_id = f"mch_{merchant_id}"
normalize_merchant_id(merchant_id) ==
    IF ~startswith(merchant_id, MCH) THEN MCH \o merchant_id ELSE merchant_id

\* The keys of the SessionState that initialize_session_state builds
SessionState(messages, advisor_id, started_at, last_activity_at, merchant_id, merchant_name, segment, total_queries, cached_data, cached_at, topics_discussed, recommendations, pending_questions, advisor_notes, working_data) ==
    [ messages |-> messages,
      advisor_id |-> advisor_id,
      started_at |-> started_at,
      last_activity_at |-> last_activity_at,
      merchant_id |-> merchant_id,
      merchant_name |-> merchant_name,
      segment |-> segment,
      total_queries |-> total_queries,
      cached_data |-> cached_data,
      cached_at |-> cached_at,
      topics_discussed |-> topics_discussed,
      recommendations |-> recommendations,
      pending_questions |-> pending_questions,
      advisor_notes |-> advisor_notes,
      working_data |-> working_data ]

\* initialize_session_state with merchant_name and segment stored in each other's place
initialize_swapped(h, advisor_id, merchant_id, merchant_name, segment, now) ==
    LET mid == normalize_merchant_id(merchant_id)
        iso_timestamp == isoformat(now)
        n == Len(h)
        h8 == h \o <<<<>>, <<>>, <<>>, <<>>, <<>>, <<>>, <<>>, <<>>>>
        st == SessionState(n + 1, advisor_id, iso_timestamp, iso_timestamp, mid,
                           segment, merchant_name, 0, n + 2, n + 3, n + 4,
                           n + 5, n + 6, n + 7, n + 8)
        r == New(h8, st)
    IN  [heap |-> r.heap, ret |-> r.ref]

initialize_session_state(h, advisor_id, merchant_id, merchant_name, segment, now) ==
    LET mid == normalize_merchant_id(merchant_id)
        iso_timestamp == isoformat(now)
        n == Len(h)
        \* messages=[], cached_data={}, cached_at={}, topics_discussed=[],
        \* recommendations=[], pending_questions=[], advisor_notes=[],
        \* working_data={}: eight new empty containers
        h8 == h \o <<<<>>, <<>>, <<>>, <<>>, <<>>, <<>>, <<>>, <<>>>>
        st == SessionState(n + 1, advisor_id, iso_timestamp, iso_timestamp, mid,
                           merchant_name, segment, 0, n + 2, n + 3, n + 4,
                           n + 5, n + 6, n + 7, n + 8)
        r == New(h8, st)
    IN  [heap |-> r.heap, ret |-> r.ref]

\* "=+ 1" written for "+= 1": the count set to 1
increment_query_count_typo(h, state, now) ==
    LET c == Copy(h, state)
        updated_state == c.ref
        h1 == SetField(c.heap, updated_state, "total_queries", 1)
        h2 == SetField(h1, updated_state, "last_activity_at", isoformat(now))
    IN  [heap |-> h2, ret |-> updated_state]

\* the time of the call written to started_at
increment_query_count_restart(h, state, now) ==
    LET c == Copy(h, state)
        updated_state == c.ref
        h1 == SetField(c.heap, updated_state, "total_queries",
                       h[state].total_queries + 1)
        h2 == SetField(h1, updated_state, "started_at", isoformat(now))
    IN  [heap |-> h2, ret |-> updated_state]

\* an increment made in the state it is given, with no copy
increment_query_count_in_place(h, state, now) ==
    LET h1 == SetField(h, state, "total_queries", h[state].total_queries + 1)
        h2 == SetField(h1, state, "last_activity_at", isoformat(now))
    IN  [heap |-> h2, ret |-> state]

increment_query_count(h, state, now) ==
    LET c == Copy(h, state)
        updated_state == c.ref
        h1 == SetField(c.heap, updated_state, "total_queries",
                       h[state].total_queries + 1)
        h2 == SetField(h1, updated_state, "last_activity_at", isoformat(now))
    IN  [heap |-> h2, ret |-> updated_state]

\* cache_data without the cached_at entry
cache_data_no_timestamp(h, state, data_type, data, now) ==
    LET c == Copy(h, state)
        updated_state == c.ref
        cd == Copy(c.heap, h[state].cached_data)
        h1 == SetField(cd.heap, updated_state, "cached_data", cd.ref)
        ca == Copy(h1, h[state].cached_at)
        h2 == SetField(ca.heap, updated_state, "cached_at", ca.ref)
        h3 == [h2 EXCEPT ![h2[updated_state].cached_data] = Put(@, data_type, data)]
    IN  [heap |-> h3, ret |-> updated_state]

\* cache_data keeping the entry a type already has
cache_data_setdefault(h, state, data_type, data, now) ==
    LET c == Copy(h, state)
        updated_state == c.ref
        cd == Copy(c.heap, h[state].cached_data)
        h1 == SetField(cd.heap, updated_state, "cached_data", cd.ref)
        ca == Copy(h1, h[state].cached_at)
        h2 == SetField(ca.heap, updated_state, "cached_at", ca.ref)
        h3 == [h2 EXCEPT ![h2[updated_state].cached_data] =
                   IF data_type \in Keys(@) THEN @ ELSE Put(@, data_type, data)]
        h4 == [h3 EXCEPT ![h3[updated_state].cached_at] =
                   IF data_type \in Keys(@) THEN @ ELSE Put(@, data_type, isoformat(now))]
    IN  [heap |-> h4, ret |-> updated_state]

\* cache_data that also takes the call for activity of the session
cache_data_touch(h, state, data_type, data, now) ==
    LET c == Copy(h, state)
        updated_state == c.ref
        cd == Copy(c.heap, h[state].cached_data)
        h1 == SetField(cd.heap, updated_state, "cached_data", cd.ref)
        ca == Copy(h1, h[state].cached_at)
        h2 == SetField(ca.heap, updated_state, "cached_at", ca.ref)
        h3 == [h2 EXCEPT ![h2[updated_state].cached_data] = Put(@, data_type, data)]
        h4 == [h3 EXCEPT ![h3[updated_state].cached_at] =
                             Put(@, data_type, isoformat(now))]
        h5 == SetField(h4, updated_state, "last_activity_at", isoformat(now))
    IN  [heap |-> h5, ret |-> updated_state]

cache_data(h, state, data_type, data, now) ==
    LET c == Copy(h, state)
        updated_state == c.ref
        cd == Copy(c.heap, h[state].cached_data)
        h1 == SetField(cd.heap, updated_state, "cached_data", cd.ref)
        ca == Copy(h1, h[state].cached_at)
        h2 == SetField(ca.heap, updated_state, "cached_at", ca.ref)
        h3 == [h2 EXCEPT ![h2[updated_state].cached_data] = Put(@, data_type, data)]
        h4 == [h3 EXCEPT ![h3[updated_state].cached_at] =
                             Put(@, data_type, isoformat(now))]
    IN  [heap |-> h4, ret |-> updated_state]

\* add_topic looking for the topic as given, not as normalized
add_topic_raw_lookup(h, state, topic) ==
    LET c == Copy(h, state)
        updated_state == c.ref
        l == Copy(c.heap, h[state].topics_discussed)
        h1 == SetField(l.heap, updated_state, "topics_discussed", l.ref)
        normalized == replace_space(lower(topic))
        tl == h1[updated_state].topics_discussed
        h2 == IF topic \notin Elems(h1[tl])
              THEN [h1 EXCEPT ![tl] = Append(@, normalized)]
              ELSE h1
    IN  [heap |-> h2, ret |-> updated_state]

\* add_topic appending to the list of the state passed in
add_topic_no_list_copy(h, state, topic) ==
    LET c == Copy(h, state)
        updated_state == c.ref
        normalized == replace_space(lower(topic))
        tl == c.heap[updated_state].topics_discussed
        h2 == IF normalized \notin Elems(c.heap[tl])
              THEN [c.heap EXCEPT ![tl] = Append(@, normalized)]
              ELSE c.heap
    IN  [heap |-> h2, ret |-> updated_state]

add_topic(h, state, topic) ==
    LET c == Copy(h, state)
        updated_state == c.ref
        l == Copy(c.heap, h[state].topics_discussed)
        h1 == SetField(l.heap, updated_state, "topics_discussed", l.ref)
        normalized == replace_space(lower(topic))
        tl == h1[updated_state].topics_discussed
        h2 == IF normalized \notin Elems(h1[tl])
              THEN [h1 EXCEPT ![tl] = Append(@, normalized)]
              ELSE h1
    IN  [heap |-> h2, ret |-> updated_state]

\* add_recommendation skipping a recommendation that is already listed
add_recommendation_dedup(h, state, recommendation_type, priority, description, expected_impact, now) ==
    LET c == Copy(h, state)
        updated_state == c.ref
        l == Copy(c.heap, h[state].recommendations)
        h1 == SetField(l.heap, updated_state, "recommendations", l.ref)
        recommendation == [ type |-> recommendation_type,
                            priority |-> priority,
                            description |-> description,
                            expected_impact |-> expected_impact,
                            created_at |-> isoformat(now) ]
        rl == h1[updated_state].recommendations
        h2 == IF recommendation \notin Elems(h1[rl])
              THEN [h1 EXCEPT ![rl] = Append(@, recommendation)]
              ELSE h1
    IN  [heap |-> h2, ret |-> updated_state]

add_recommendation(h, state, recommendation_type, priority, description, expected_impact, now) ==
    LET c == Copy(h, state)
        updated_state == c.ref
        l == Copy(c.heap, h[state].recommendations)
        h1 == SetField(l.heap, updated_state, "recommendations", l.ref)
        recommendation == [ type |-> recommendation_type,
                            priority |-> priority,
                            description |-> description,
                            expected_impact |-> expected_impact,
                            created_at |-> isoformat(now) ]
        h2 == [h1 EXCEPT ![h1[updated_state].recommendations] =
                             Append(@, recommendation)]
    IN  [heap |-> h2, ret |-> updated_state]

\* add_pending_question comparing the questions without regard to letter case
fold_case(question) == IF question = "What?" THEN "what?" ELSE question
add_pending_question_folded(h, state, question) ==
    LET c == Copy(h, state)
        updated_state == c.ref
        l == Copy(c.heap, h[state].pending_questions)
        h1 == SetField(l.heap, updated_state, "pending_questions", l.ref)
        pl == h1[updated_state].pending_questions
        h2 == IF fold_case(question) \notin {fold_case(x) : x \in Elems(h1[pl])}
              THEN [h1 EXCEPT ![pl] = Append(@, question)]
              ELSE h1
    IN  [heap |-> h2, ret |-> updated_state]

add_pending_question(h, state, question) ==
    LET c == Copy(h, state)
        updated_state == c.ref
        l == Copy(c.heap, h[state].pending_questions)
        h1 == SetField(l.heap, updated_state, "pending_questions", l.ref)
        pl == h1[updated_state].pending_questions
        h2 == IF question \notin Elems(h1[pl])
              THEN [h1 EXCEPT ![pl] = Append(@, question)]
              ELSE h1
    IN  [heap |-> h2, ret |-> updated_state]

add_advisor_note(h, state, note, now) ==
    LET c == Copy(h, state)
        updated_state == c.ref
        l == Copy(c.heap, h[state].advisor_notes)
        h1 == SetField(l.heap, updated_state, "advisor_notes", l.ref)
        note_entry == [note |-> note, timestamp |-> isoformat(now)]
        h2 == [h1 EXCEPT ![h1[updated_state].advisor_notes] = Append(@, note_entry)]
    IN  [heap |-> h2, ret |-> updated_state]

\* The outcome of a call that reads the state: the value returned, the exception
\* raised ("none" if the call returned) and the attributes set on its span
Outcome(h, value, exc, span) ==
    [heap |-> h, ret |-> [value |-> value, exc |-> exc, span |-> span]]

\* if span: span.set_attribute(key, v).  Without a span no attribute is kept.
set_attribute(tracing, span, key, v) == IF tracing THEN Put(span, key, v) ELSE span

\* an absent key read as one minute
ttl_of_default_60(data_type, cache_config) ==
    LET ttl_key == <<data_type, "_ttl_seconds">>
    IN  IF ttl_key \in Keys(cache_config) THEN Get(cache_config, ttl_key) ELSE 60

\* cache_config.get(f"{data_type}_ttl_seconds", 300)
ttl_of(data_type, cache_config) ==
    LET ttl_key == <<data_type, "_ttl_seconds">>
    IN  IF ttl_key \in Keys(cache_config) THEN Get(cache_config, ttl_key) ELSE 300

\* a lookup at the boundary counted as expired
expired_at_boundary(age_seconds, ttl) == age_seconds >= Seconds(ttl)

\* an entry counted as expired only in the first second past its time to live
expired_for_a_second(age_seconds, ttl) == age_seconds > Seconds(ttl) /\ age_seconds <= Seconds(ttl + 1)

\* age_seconds > ttl
expired(age_seconds, ttl) == age_seconds > Seconds(ttl)

\* a lookup that reads cached_at[data_type] without the test of line 181
cache_lookup_unchecked(h, state, data_type, cache_config, now, tracing) ==
    LET span0 == <<>>
        span1 == set_attribute(tracing, span0, "cache.data_type", data_type)
        cached_data == h[h[state].cached_data]
        cached_at == h[h[state].cached_at]
        ttl == ttl_of(data_type, cache_config)
        cached_time == fromisoformat(Get(cached_at, data_type))
        current_time == now
        age_seconds == total_seconds(current_time, cached_time)
        span2 == set_attribute(tracing,
                     set_attribute(tracing, span1, "cache.age_seconds", age_seconds),
                     "cache.ttl_seconds", ttl)
    IN  IF data_type \notin Keys(cached_data)
        THEN Outcome(h, None, "KeyError", span1)
        ELSE IF data_type \notin Keys(cached_at)
        THEN Outcome(h, None, "KeyError", span1)
        ELSE IF ~parses(Get(cached_at, data_type))
        THEN Outcome(h, None, "ValueError", span1)
        ELSE IF expired(age_seconds, ttl)
        THEN Outcome(h, None, "none",
                     set_attribute(tracing,
                         set_attribute(tracing, span2, "cache.hit", FALSE),
                         "cache.miss_reason", "expired"))
        ELSE Outcome(h, Get(cached_data, data_type), "none",
                     set_attribute(tracing, span2, "cache.hit", TRUE))

\* a lookup that takes an entry whose timestamp does not parse for an expired
\* one
cache_lookup_lenient(h, state, data_type, cache_config, now, tracing) ==
    LET span1 == set_attribute(tracing, <<>>, "cache.data_type", data_type)
        cached_data == h[h[state].cached_data]
        cached_at == h[h[state].cached_at]
        ttl == ttl_of(data_type, cache_config)
        age_seconds == total_seconds(now, fromisoformat(Get(cached_at, data_type)))
        span2 == set_attribute(tracing,
                     set_attribute(tracing, span1, "cache.age_seconds", age_seconds),
                     "cache.ttl_seconds", ttl)
    IN  IF data_type \notin Keys(cached_data)
        THEN Outcome(h, None, "none",
                     set_attribute(tracing,
                         set_attribute(tracing, span1, "cache.hit", FALSE),
                         "cache.miss_reason", "not_found"))
        ELSE IF data_type \notin Keys(cached_at)
        THEN Outcome(h, None, "KeyError", span1)
        ELSE IF ~parses(Get(cached_at, data_type)) \/ expired(age_seconds, ttl)
        THEN Outcome(h, None, "none",
                     set_attribute(tracing,
                         set_attribute(tracing, span1, "cache.hit", FALSE),
                         "cache.miss_reason", "expired"))
        ELSE Outcome(h, Get(cached_data, data_type), "none",
                     set_attribute(tracing, span2, "cache.hit", TRUE))

\* a lookup that drops the entry it finds expired from the state it is given
cache_lookup_evict(h, state, data_type, cache_config, now, tracing) ==
    LET span1 == set_attribute(tracing, <<>>, "cache.data_type", data_type)
        cached_data == h[h[state].cached_data]
        cached_at == h[h[state].cached_at]
        ttl == ttl_of(data_type, cache_config)
        age_seconds == total_seconds(now, fromisoformat(Get(cached_at, data_type)))
        span2 == set_attribute(tracing,
                     set_attribute(tracing, span1, "cache.age_seconds", age_seconds),
                     "cache.ttl_seconds", ttl)
        evicted == [h EXCEPT ![h[state].cached_data] = SelectSeq(@, LAMBDA e : e.k # data_type),
                             ![h[state].cached_at] = SelectSeq(@, LAMBDA e : e.k # data_type)]
    IN  IF data_type \notin Keys(cached_data)
        THEN Outcome(h, None, "none",
                     set_attribute(tracing,
                         set_attribute(tracing, span1, "cache.hit", FALSE),
                         "cache.miss_reason", "not_found"))
        ELSE IF data_type \notin Keys(cached_at)
        THEN Outcome(h, None, "KeyError", span1)
        ELSE IF ~parses(Get(cached_at, data_type))
        THEN Outcome(h, None, "ValueError", span1)
        ELSE IF expired(age_seconds, ttl)
        THEN Outcome(evicted, None, "none",
                     set_attribute(tracing,
                         set_attribute(tracing, span2, "cache.hit", FALSE),
                         "cache.miss_reason", "expired"))
        ELSE Outcome(h, Get(cached_data, data_type), "none",
                     set_attribute(tracing, span2, "cache.hit", TRUE))

\* The try block of get_cached_data (lines 175-212), with a span whose calls
\* succeed (tracing) or with no span
cache_lookup(h, state, data_type, cache_config, now, tracing) ==
    LET span0 == <<>>
        span1 == set_attribute(tracing, span0, "cache.data_type", data_type)
        cached_data == h[h[state].cached_data]
        cached_at == h[h[state].cached_at]
        ttl == ttl_of(data_type, cache_config)
        cached_time == fromisoformat(Get(cached_at, data_type))
        current_time == now
        age_seconds == total_seconds(current_time, cached_time)
        span2 == set_attribute(tracing,
                     set_attribute(tracing, span1, "cache.age_seconds", age_seconds),
                     "cache.ttl_seconds", ttl)
    IN  IF data_type \notin Keys(cached_data)
        THEN Outcome(h, None, "none",
                     set_attribute(tracing,
                         set_attribute(tracing, span1, "cache.hit", FALSE),
                         "cache.miss_reason", "not_found"))
        ELSE IF data_type \notin Keys(cached_at)
        THEN Outcome(h, None, "KeyError", span1)
        ELSE IF ~parses(Get(cached_at, data_type))
        THEN Outcome(h, None, "ValueError", span1)
        ELSE IF expired(age_seconds, ttl)
        THEN Outcome(h, None, "none",
                     set_attribute(tracing,
                         set_attribute(tracing, span2, "cache.hit", FALSE),
                         "cache.miss_reason", "expired"))
        ELSE Outcome(h, Get(cached_data, data_type), "none",
                     set_attribute(tracing, span2, "cache.hit", TRUE))

\* What can go wrong with the span: nothing, tracer.start_span raises,
\* span.set_attribute raises, span.end raises
SpanFaults == { "none", "start_span", "set_attribute", "end" }

\* tracing: opentelemetry can be imported.  An error of start_span is caught at
\* line 172 and leaves no span; the first set_attribute (line 178) is inside a
\* try that has a finally and no except, so its error leaves the function after
\* span.end(); an error of span.end() in the finally replaces the return.
get_cached_data(h, state, data_type, cache_config, now, tracing, fault) ==
    LET span == tracing /\ fault # "start_span"
        body == cache_lookup(h, state, data_type, cache_config, now, span)
    IN  IF span /\ fault = "set_attribute"
        THEN Outcome(h, None, "Exception", <<>>)
        ELSE IF span /\ fault = "end"
        THEN Outcome(h, None, "Exception", body.ret.span)
        ELSE body

\* The keys of the summary get_session_summary returns; "topics" is the state's
\* own list, cached_data_types a new list of the keys
get_session_summary(h, state) ==
    LET st == h[state]
        started == fromisoformat(st.started_at)
        last_activity == fromisoformat(st.last_activity_at)
        duration_seconds == total_seconds(last_activity, started)
    IN  IF ~parses(st.started_at) \/ ~parses(st.last_activity_at)
        THEN Outcome(h, None, "ValueError", <<>>)
        ELSE Outcome(h,
               [ advisor_id |-> st.advisor_id,
                 merchant_id |-> st.merchant_id,
                 merchant_name |-> st.merchant_name,
                 segment |-> st.segment,
                 started_at |-> st.started_at,
                 last_activity_at |-> st.last_activity_at,
                 duration_seconds |-> duration_seconds,
                 total_queries |-> st.total_queries,
                 topics_count |-> Len(h[st.topics_discussed]),
                 topics |-> st.topics_discussed,
                 recommendations_count |-> Len(h[st.recommendations]),
                 pending_questions_count |-> Len(h[st.pending_questions]),
                 advisor_notes_count |-> Len(h[st.advisor_notes]),
                 cached_data_types |-> KeyList(h[st.cached_data]) ],
               "none", <<>>)

\* the id compared as it is given
validate_merchant_match_raw(h, state, merchant_id) ==
    Outcome(h, h[state].merchant_id = merchant_id, "none", <<>>)

\* lines 382-386
validate_merchant_match(h, state, merchant_id) ==
    LET normalized == IF ~startswith(merchant_id, MCH) THEN MCH \o merchant_id
                      ELSE merchant_id
    IN  Outcome(h, h[state].merchant_id = normalized, "none", <<>>)

\* sep.join(parts) with sep ", ": a string is kept as the sequence of its
\* pieces, the separator one piece
RECURSIVE join(_)
join(parts) ==
    IF Len(parts) = 0 THEN <<>>
    ELSE IF Len(parts) = 1 THEN parts[1]
    ELSE parts[1] \o <<", ">> \o join(Tail(parts))

\* x or ""
or_empty(x) == IF x = None \/ x = "" THEN "" ELSE x

\* An item of the snapshot: the key (a tuple of its parts), the value and the
\* Python type of the value
Item(key, v, type) == [k |-> key, v |-> v, t |-> type]

\* lines 414-419: one age per item of cached_at, in its order
cache_ages(cached_at, now) ==
    [ i \in 1..Len(cached_at) |->
        Item(<<"cache_age_", cached_at[i].k>>,
             total_seconds(now, fromisoformat(cached_at[i].v)), "float") ]

\* dict.update: the value of a key that is there is replaced, a new key is
\* added at the end
RECURSIVE update(_, _)
update(d, e) ==
    IF Len(e) = 0 THEN d
    ELSE LET x == e[1]
             at == { i \in 1..Len(d) : d[i].k = x.k }
         IN  update(IF at = {} THEN Append(d, x)
                    ELSE [d EXCEPT ![CHOOSE i \in at : TRUE] = x],
                    Tail(e))

\* The fixed items of the snapshot (lines 421-440)
snapshot_items(h, st, thread_id, duration_seconds, name) ==
    << Item(<<"session.thread_id">>, thread_id, "str"),
       Item(<<"session.advisor_id">>, st.advisor_id, "str"),
       Item(<<"session.total_queries">>, st.total_queries, "int"),
       Item(<<"session.duration_seconds">>, duration_seconds, "float"),
       Item(<<"merchant.id">>, st.merchant_id, "str"),
       Item(<<"merchant.name">>, name, IF name = None THEN "NoneType" ELSE "str"),
       Item(<<"merchant.segment">>, or_empty(st.segment), "str"),
       Item(<<"session.topics_count">>, Len(h[st.topics_discussed]), "int"),
       Item(<<"session.topics">>, join(h[st.topics_discussed]), "str"),
       Item(<<"session.recommendations_count">>, Len(h[st.recommendations]), "int"),
       Item(<<"session.pending_questions_count">>, Len(h[st.pending_questions]), "int"),
       Item(<<"session.advisor_notes_count">>, Len(h[st.advisor_notes]), "int"),
       Item(<<"session.cached_data_types">>,
            join([i \in 1..Len(h[st.cached_data]) |-> <<h[st.cached_data][i].k>>]), "str"),
       Item(<<"session.cached_types_count">>, Len(h[st.cached_data]), "int") >>

\* Every timestamp the snapshot reads parses
snapshot_parses(h, st) ==
    /\ parses(st.started_at)
    /\ parses(st.last_activity_at)
    /\ \A i \in 1..Len(h[st.cached_at]) : parses(h[st.cached_at][i].v)

\* a snapshot whose duration runs to the time of the call
create_session_snapshot_to_now(h, state, thread_id, now) ==
    LET st == h[state]
        duration_seconds == total_seconds(now, fromisoformat(st.started_at))
    IN  IF ~snapshot_parses(h, st) THEN Outcome(h, None, "ValueError", <<>>)
        ELSE Outcome(h, update(snapshot_items(h, st, thread_id, duration_seconds,
                                              or_empty(st.merchant_name)),
                               cache_ages(h[st.cached_at], now)),
                     "none", <<>>)

\* a snapshot with the merchant name as the state has it
create_session_snapshot_raw_name(h, state, thread_id, now) ==
    LET st == h[state]
        duration_seconds ==
            total_seconds(fromisoformat(st.last_activity_at), fromisoformat(st.started_at))
    IN  IF ~snapshot_parses(h, st) THEN Outcome(h, None, "ValueError", <<>>)
        ELSE Outcome(h, update(snapshot_items(h, st, thread_id, duration_seconds,
                                              st.merchant_name),
                               cache_ages(h[st.cached_at], now)),
                     "none", <<>>)

\* lines 409-445.  state.get("merchant_name") or ""
create_session_snapshot(h, state, thread_id, now) ==
    LET st == h[state]
        duration_seconds ==
            total_seconds(fromisoformat(st.last_activity_at), fromisoformat(st.started_at))
    IN  IF ~snapshot_parses(h, st) THEN Outcome(h, None, "ValueError", <<>>)
        ELSE Outcome(h, update(snapshot_items(h, st, thread_id, duration_seconds,
                                              or_empty(st.merchant_name)),
                               cache_ages(h[st.cached_at], now)),
                     "none", <<>>)

----------------------------------------------------------------------------
(* session_inspector.py *)

\* format(n / d, ".0f"): the quotient rounded to the nearest integer, a half
\* to the even one
round_half_even(n, d) ==
    LET q == n \div d
        r == n % d
    IN  IF 2 * r < d THEN q
        ELSE IF 2 * r > d THEN q + 1
        ELSE IF q % 2 = 0 THEN q ELSE q + 1

\* What print_session_state prints, line by line as label and value, and
\* the duration_seconds it derives (line 27).  "Duration" shows the minutes in
\* tenths and the seconds, both rounded (line 44); the lists under
\* RECOMMENDATIONS and ADVISOR NOTES are printed only if detailed.
print_session_state(h, state, detailed) ==
    LET st == h[state]
        started == fromisoformat(st.started_at)
        last_activity == fromisoformat(st.last_activity_at)
        duration_seconds == total_seconds(last_activity, started)
        topics == h[st.topics_discussed]
        cached == h[st.cached_data]
        recs == h[st.recommendations]
        notes == h[st.advisor_notes]
        lines ==
            [ advisor_id |-> st.advisor_id,
              merchant |-> <<st.merchant_id, or_empty(st.merchant_name), or_empty(st.segment)>>,
              started_at |-> st.started_at,
              last_activity_at |-> st.last_activity_at,
              duration_tenths_of_minutes |->
                  round_half_even(duration_seconds, 6 * TicksPerSecond),
              duration_whole_seconds |-> round_half_even(duration_seconds, TicksPerSecond),
              total_queries |-> st.total_queries,
              topics |-> Len(topics),
              topics_list |-> join(topics),
              cached_data |-> Len(cached),
              data_types |-> join([i \in 1..Len(cached) |-> <<cached[i].k>>]),
              recommendations |-> Len(recs),
              recommendations_detailed |-> IF detailed THEN recs ELSE <<>>,
              pending_questions |-> Len(h[st.pending_questions]),
              pending_questions_list |-> h[st.pending_questions],
              advisor_notes |-> Len(notes),
              advisor_notes_detailed |-> IF detailed THEN notes ELSE <<>> ]
    IN  IF ~parses(st.started_at) \/ ~parses(st.last_activity_at)
        THEN Outcome(h, None, "ValueError", <<>>)
        ELSE Outcome(h, [duration_seconds |-> duration_seconds, lines |-> lines],
                     "none", <<>>)

\* an export that counts the notes by the pending questions
export_session_summary_miscount(h, state, now) ==
    LET st == h[state]
        started == fromisoformat(st.started_at)
        last_activity == fromisoformat(st.last_activity_at)
        duration_seconds == total_seconds(last_activity, started)
        ended_at == isoformat(now)
    IN  IF ~parses(st.started_at) \/ ~parses(st.last_activity_at)
        THEN Outcome(h, None, "ValueError", <<>>)
        ELSE Outcome(h,
               [ advisor_id |-> st.advisor_id,
                 started_at |-> st.started_at,
                 last_activity_at |-> st.last_activity_at,
                 ended_at |-> ended_at,
                 duration_seconds |-> duration_seconds,
                 merchant_id |-> st.merchant_id,
                 merchant_name |-> st.merchant_name,
                 segment |-> st.segment,
                 total_queries |-> st.total_queries,
                 topics_discussed |-> st.topics_discussed,
                 topics_count |-> Len(h[st.topics_discussed]),
                 cached_data_types |-> KeyList(h[st.cached_data]),
                 cached_at |-> st.cached_at,
                 recommendations |-> st.recommendations,
                 recommendations_count |-> Len(h[st.recommendations]),
                 pending_questions |-> st.pending_questions,
                 pending_questions_count |-> Len(h[st.pending_questions]),
                 advisor_notes |-> st.advisor_notes,
                 advisor_notes_count |-> Len(h[st.pending_questions]),
                 working_data |-> st.working_data ],
               "none", <<>>)

\* The lists and maps of the export are the state's own objects
export_session_summary(h, state, now) ==
    LET st == h[state]
        started == fromisoformat(st.started_at)
        last_activity == fromisoformat(st.last_activity_at)
        duration_seconds == total_seconds(last_activity, started)
        ended_at == isoformat(now)
    IN  IF ~parses(st.started_at) \/ ~parses(st.last_activity_at)
        THEN Outcome(h, None, "ValueError", <<>>)
        ELSE Outcome(h,
               [ advisor_id |-> st.advisor_id,
                 started_at |-> st.started_at,
                 last_activity_at |-> st.last_activity_at,
                 ended_at |-> ended_at,
                 duration_seconds |-> duration_seconds,
                 merchant_id |-> st.merchant_id,
                 merchant_name |-> st.merchant_name,
                 segment |-> st.segment,
                 total_queries |-> st.total_queries,
                 topics_discussed |-> st.topics_discussed,
                 topics_count |-> Len(h[st.topics_discussed]),
                 cached_data_types |-> KeyList(h[st.cached_data]),
                 cached_at |-> st.cached_at,
                 recommendations |-> st.recommendations,
                 recommendations_count |-> Len(h[st.recommendations]),
                 pending_questions |-> st.pending_questions,
                 pending_questions_count |-> Len(h[st.pending_questions]),
                 advisor_notes |-> st.advisor_notes,
                 advisor_notes_count |-> Len(h[st.advisor_notes]),
                 working_data |-> st.working_data ],
               "none", <<>>)

----------------------------------------------------------------------------
(* agent.py *)

\* now.strftime("%Y%m%d_%H%M%S"): the time to the whole second
strftime(now) == now \div TicksPerSecond

\* the prefix added to the thread id whether or not the id has it
thread_id_of_always_prefix(merchant_id, now) ==
    <<"merchant_", MCH \o merchant_id, "_", strftime(now)>>

\* lines 272-279: f"merchant_{normalized_merchant_id}_{timestamp}", kept in
\* its three parts and the separator
thread_id_of(merchant_id, now) ==
    LET normalized_merchant_id ==
            IF startswith(merchant_id, MCH) THEN merchant_id ELSE MCH \o merchant_id
    IN  <<"merchant_", normalized_merchant_id, "_", strftime(now)>>

\* result["messages"][-1].content if result.get("messages") else ""
response_text_of(messages) ==
    IF Len(messages) > 0 THEN messages[Len(messages)] ELSE ""

\* What run_query_in_session gives its caller: the response text and the state
\* returned (0 if it raised), the exception, the events its span received and
\* the calls of agent.invoke it made
QueryOutcome(h, value, state, exc, events, invoked) ==
    [heap |-> h, ret |-> [value |-> value, state |-> state, exc |-> exc, span |-> events,
                          invoked |-> invoked]]

\* agent.invoke({"messages": [{"role": "user", "content": query}]}, config)
\* with config = {"configurable": {"thread_id": thread_id}} (lines 331-334)
invoke(query, thread_id) ==
    [ input |-> [messages |-> << [role |-> "user", content |-> query] >>],
      config |-> [configurable |-> [thread_id |-> thread_id]] ]

\* a query run on a thread named after the merchant and the time of the query
execute_query_new_thread(h, agent_result, thread_id, session_state, query, now) ==
    LET inc == increment_query_count(h, session_state, now)
        updated_state == inc.ret
        calls == << invoke(query, thread_id_of(h[session_state].merchant_id, now)) >>
    IN  IF agent_result.raises
        THEN QueryOutcome(inc.heap, None, 0, "AgentError", <<>>, calls)
        ELSE QueryOutcome(inc.heap, response_text_of(agent_result.messages),
                          updated_state, "none", <<>>, calls)

\* a query whose failure is caught: the counted state goes back to the caller
\* with an empty response
execute_query_caught(h, agent_result, thread_id, session_state, query, now) ==
    LET inc == increment_query_count(h, session_state, now)
        updated_state == inc.ret
        calls == << invoke(query, thread_id) >>
    IN  IF agent_result.raises
        THEN QueryOutcome(inc.heap, "", updated_state, "none", <<>>, calls)
        ELSE QueryOutcome(inc.heap, response_text_of(agent_result.messages),
                          updated_state, "none", <<>>, calls)

\* execute_query (lines 326-339): the count is raised before the agent is
\* invoked; agent_result is what agent.invoke does, raise or return messages
execute_query(h, agent_result, thread_id, session_state, query, now) ==
    LET inc == increment_query_count(h, session_state, now)
        updated_state == inc.ret
        calls == << invoke(query, thread_id) >>
    IN  IF agent_result.raises
        THEN QueryOutcome(inc.heap, None, 0, "AgentError", <<>>, calls)
        ELSE QueryOutcome(inc.heap, response_text_of(agent_result.messages),
                          updated_state, "none", <<>>, calls)

\* span.add_event("user_message", ...) of lines 362-369
user_message(h, session_state, query) ==
    [ name |-> "user_message",
      attributes |-> << [k |-> "message.role", v |-> "user"],
                        [k |-> "message.content", v |-> query],
                        [k |-> "session.query_number", v |-> h[session_state].total_queries + 1] >> ]

\* tracing: opentelemetry can be imported, and then the tracer is an object,
\* which is true.  The traced branch reads session_state["session_id"] first
\* (line 345), a key no state has; were it there, the next failure is the call
\* create_session_snapshot(session_state) of line 372, which lacks the
\* thread_id the function requires (session_manager.py:389).  Nothing catches
\* either error, so lines 373-398 are never run.
run_query_in_session(h, agent_result, thread_id, session_state, query, now, tracing) ==
    IF tracing
    THEN IF "session_id" \notin DOMAIN h[session_state]
         THEN QueryOutcome(h, None, 0, "KeyError", <<>>, <<>>)
         ELSE QueryOutcome(h, None, 0, "TypeError",
                           <<user_message(h, session_state, query)>>, <<>>)
    ELSE execute_query(h, agent_result, thread_id, session_state, query, now)

----------------------------------------------------------------------------
(* session_utils.py and the checkpoint database *)

\* The database at db_path: whether the file is there, whether it has the
\* table checkpoints, the rows of the table (thread_id, checkpoint_id) and the
\* checkpoint id the saver gives next (ids grow with time)
no_database == [file |-> FALSE, table |-> FALSE, rows |-> <<>>, next |-> 1]

\* sqlite3.connect(db_path): the file is created if it is not there
connect(d) == [d EXCEPT !.file = TRUE]

\* What a utility leaves and gives: the database, the value returned and the
\* exception raised
DbOutcome(d, value, exc) == [db |-> d, ret |-> [value |-> value, exc |-> exc]]

\* The thread ids, in the order ORDER BY thread_id gives them
ThreadIds == <<"user-123", "user-456">>

\* The rows of thread_id in the order of the table, which is the order of
\* checkpoint_id
RowsOf(rows, thread_id) == SelectSeq(rows, LAMBDA r : r.thread_id = thread_id)

\* The checkpointer of an agent with session memory saves a checkpoint of
\* thread_id; it creates the table the first time
put_checkpoint(d, thread_id) ==
    [ file |-> TRUE, table |-> TRUE,
      rows |-> Append(d.rows, [thread_id |-> thread_id, checkpoint_id |-> d.next]),
      next |-> d.next + 1 ]

\* lines 24-43: SELECT * ... WHERE thread_id = ? ORDER BY checkpoint_id
get_session_history(d, thread_id) ==
    IF ~d.table THEN DbOutcome(connect(d), <<>>, "none")
    ELSE DbOutcome(connect(d), RowsOf(d.rows, thread_id), "none")

\* lines 60-75: SELECT DISTINCT thread_id ... ORDER BY thread_id
list_active_sessions(d) ==
    IF ~d.table THEN DbOutcome(connect(d), <<>>, "none")
    ELSE DbOutcome(connect(d),
                   SelectSeq(ThreadIds, LAMBDA t : Len(RowsOf(d.rows, t)) > 0), "none")

\* a clear_session that lets the error of the missing table out
clear_session_uncaught(d, thread_id) ==
    IF ~d.table THEN DbOutcome(connect(d), None, "OperationalError")
    ELSE DbOutcome([connect(d) EXCEPT !.rows = SelectSeq(d.rows, LAMBDA r : r.thread_id # thread_id)],
                   Len(RowsOf(d.rows, thread_id)), "none")

\* a clear_session whose DELETE has no WHERE
clear_session_every_thread(d, thread_id) ==
    IF ~d.table THEN DbOutcome(connect(d), 0, "none")
    ELSE DbOutcome([connect(d) EXCEPT !.rows = <<>>], Len(d.rows), "none")

\* lines 93-110: DELETE ... WHERE thread_id = ?, commit, cursor.rowcount
clear_session(d, thread_id) ==
    IF ~d.table THEN DbOutcome(connect(d), 0, "none")
    ELSE DbOutcome([connect(d) EXCEPT !.rows = SelectSeq(d.rows, LAMBDA r : r.thread_id # thread_id)],
                   Len(RowsOf(d.rows, thread_id)), "none")

\* lines 131-161: the count, the first and the last checkpoint of the thread,
\* None if it has no row
get_session_info(d, thread_id) ==
    LET rows == RowsOf(d.rows, thread_id)
    IN  IF ~d.table \/ Len(rows) = 0 THEN DbOutcome(connect(d), None, "none")
        ELSE DbOutcome(connect(d),
                       [ thread_id |-> thread_id,
                         checkpoint_count |-> Len(rows),
                         first_checkpoint |-> rows[1].checkpoint_id,
                         last_checkpoint |-> rows[Len(rows)].checkpoint_id ],
                       "none")

\* lines 180-189: DELETE FROM checkpoints, commit, cursor.rowcount
clear_all_sessions(d) ==
    IF ~d.table THEN DbOutcome(connect(d), 0, "none")
    ELSE DbOutcome([connect(d) EXCEPT !.rows = <<>>], Len(d.rows), "none")

----------------------------------------------------------------------------
(* agent.py: creating the agent.  An environment variable and an optional   *)
(* argument are records: set tells whether it is there (not None), value    *)
(* what it is.  The file of the model's database is "checkpoints.db".       *)

\* An optional value that is there, and the two that are not
Some(v) == [set |-> TRUE, value |-> v]
NoString == [set |-> FALSE, value |-> ""]
NoChars == [set |-> FALSE, value |-> <<>>]

\* os.getenv(name, default)
getenv(var, default) == IF var.set THEN var.value ELSE default

\* x or default, for a string that may be None
or_else(x, default) == IF x.set /\ x.value # "" THEN x.value ELSE default

\* checkpointing decided by the environment as it is spelt
checkpointing_enabled_exact(env, enable_checkpointing) ==
    IF enable_checkpointing.set THEN enable_checkpointing.value
    ELSE getenv(env.ENABLE_CHECKPOINTING, <<"f", "a", "l", "s", "e">>)
            \in { <<"t", "r", "u", "e">>, <<"1">>, <<"y", "e", "s">> }

\* lines 63-68: the argument if it is not None, else the environment
checkpointing_enabled(env, enable_checkpointing) ==
    IF enable_checkpointing.set THEN enable_checkpointing.value
    ELSE lower(getenv(env.ENABLE_CHECKPOINTING, <<"f", "a", "l", "s", "e">>))
            \in { <<"t", "r", "u", "e">>, <<"1">>, <<"y", "e", "s">> }

\* checkpointer = None
no_checkpointer == [made_by |-> "None", conn |-> <<>>]

\* lines 71-81: the connection and the saver made on it, or None
checkpointer_of(env, enabled, checkpoint_db_path) ==
    LET db_path == or_else(checkpoint_db_path,
                           getenv(env.CHECKPOINT_DB_PATH, "checkpoints.db"))
        conn == [fn |-> "sqlite3.connect", path |-> db_path, check_same_thread |-> FALSE]
    IN  IF enabled THEN [made_by |-> "SqliteSaver", conn |-> <<conn>>]
        ELSE no_checkpointer

\* What creating an agent leaves and gives: the database, the agent returned
\* or the exception with its message, and the calls made in their order
AgentOutcome(d, value, exc, message, calls) ==
    [db |-> d, ret |-> [value |-> value, exc |-> exc, message |-> message, calls |-> calls]]

\* a body that opens the database before it looks for the key
build_key_last(d, env, model, enable_checkpointing, checkpoint_db_path, agent) ==
    LET api_key == env.OPENAI_API_KEY
        llm == [fn |-> "ChatOpenAI", model |-> or_else(model, "gpt-4o"),
                api_key |-> api_key.value]
        enabled == checkpointing_enabled(env, enable_checkpointing)
        checkpointer == checkpointer_of(env, enabled, checkpoint_db_path)
        made == [agent EXCEPT !.model = llm, !.checkpointer = checkpointer]
        opened == IF enabled /\ checkpointer.conn[1].path = "checkpoints.db"
                  THEN connect(d) ELSE d
    IN  IF ~api_key.set \/ api_key.value = ""
        THEN AgentOutcome(opened, None, "ValueError",
                          <<"OPENAI_API_KEY", " not found in environment variables. ">>,
                          checkpointer.conn)
        ELSE AgentOutcome(opened, made, "none", <<>>,
                 <<llm>> \o checkpointer.conn
                   \o (IF enabled THEN <<[fn |-> "SqliteSaver"]>> ELSE <<>>) \o <<made>>)

\* The body the two functions share up to the last call (lines 49-81 and
\* 120-147); agent is the create_deep_agent call with all but its model and
\* checkpointer.  The temperature, passed on as given, is left out.
build(d, env, model, enable_checkpointing, checkpoint_db_path, agent) ==
    LET api_key == env.OPENAI_API_KEY
        llm == [fn |-> "ChatOpenAI", model |-> or_else(model, "gpt-4o"),
                api_key |-> api_key.value]
        enabled == checkpointing_enabled(env, enable_checkpointing)
        checkpointer == checkpointer_of(env, enabled, checkpoint_db_path)
        made == [agent EXCEPT !.model = llm, !.checkpointer = checkpointer]
    IN  IF ~api_key.set \/ api_key.value = ""
        THEN AgentOutcome(d, None, "ValueError",
                          <<"OPENAI_API_KEY", " not found in environment variables. ">>, <<>>)
        ELSE AgentOutcome(
                 IF enabled /\ checkpointer.conn[1].path = "checkpoints.db"
                 THEN connect(d) ELSE d,
                 made, "none", <<>>,
                 <<llm>> \o checkpointer.conn
                   \o (IF enabled THEN <<[fn |-> "SqliteSaver"]>> ELSE <<>>) \o <<made>>)

\* lines 21-84
create_agent(d, env, model, enable_checkpointing, checkpoint_db_path) ==
    build(d, env, model, enable_checkpointing, checkpoint_db_path,
          [fn |-> "create_deep_agent", model |-> <<>>, checkpointer |-> <<>>])

\* lines 87-157: middleware or [], and the system prompt as given
create_agent_with_custom_middleware(d, env, middleware, system_prompt, model, enable_checkpointing, checkpoint_db_path) ==
    build(d, env, model, enable_checkpointing, checkpoint_db_path,
          [fn |-> "create_deep_agent", model |-> <<>>, checkpointer |-> <<>>,
           middleware |-> IF middleware.set THEN middleware.value ELSE <<>>,
           system_prompt |-> system_prompt])

\* a task run on an agent made as the environment says
run_agent_task_as_environment(d, env, task, model, agent_result) ==
    LET a == create_agent(d, env, model, [set |-> FALSE, value |-> FALSE], NoString)
        call == [ fn |-> "invoke", agent |-> a.ret.value,
                  input |-> [messages |-> << [role |-> "user", content |-> task] >>] ]
    IN  IF a.ret.exc # "none" THEN a
        ELSE IF agent_result.raises
        THEN AgentOutcome(a.db, None, "AgentError", <<>>, Append(a.ret.calls, call))
        ELSE AgentOutcome(a.db, [messages |-> agent_result.messages], "none", <<>>,
                          Append(a.ret.calls, call))

\* lines 160-186: create_agent(model=model, enable_checkpointing=False), then
\* agent.invoke with the task and no config; agent_result is what the agent
\* does, raise or return messages
run_agent_task(d, env, task, model, agent_result) ==
    LET a == create_agent(d, env, model, Some(FALSE), NoString)
        call == [ fn |-> "invoke", agent |-> a.ret.value,
                  input |-> [messages |-> << [role |-> "user", content |-> task] >>] ]
    IN  IF a.ret.exc # "none" THEN a
        ELSE IF agent_result.raises
        THEN AgentOutcome(a.db, None, "AgentError", <<>>, Append(a.ret.calls, call))
        ELSE AgentOutcome(a.db, [messages |-> agent_result.messages], "none", <<>>,
                          Append(a.ret.calls, call))

\* lines 189-218: create_agent with enable_checkpointing=True
create_agent_with_session_memory(d, env, model, checkpoint_db_path) ==
    create_agent(d, env, model, Some(TRUE), checkpoint_db_path)

\* lines 221-281: the state, the agent with session memory and the thread
\* id.  If the agent cannot be created the error leaves the function and
\* nothing is returned.  The clock is read once for the state and once for
\* the thread id, both at the same instant.
start_merchant_session(h, d, env, advisor_id, merchant_id, merchant_name, segment, model, checkpoint_db_path, now) ==
    LET r == initialize_session_state(h, advisor_id, merchant_id, merchant_name, segment, now)
        a == create_agent_with_session_memory(d, env, model, checkpoint_db_path)
    IN  IF a.ret.exc # "none"
        THEN [ heap |-> h, db |-> a.db,
               ret |-> [state |-> 0, thread_id |-> <<>>, agent |-> None, exc |-> a.ret.exc] ]
        ELSE [ heap |-> r.heap, db |-> a.db,
               ret |-> [ state |-> r.ret, thread_id |-> thread_id_of(merchant_id, now),
                         agent |-> a.ret.value, exc |-> "none" ] ]

----------------------------------------------------------------------------
(* The inputs the calls are made with *)

InitInputs ==
    { [ advisor_id |-> "adv_001", merchant_id |-> <<"7">>,
        merchant_name |-> "TechRetail", segment |-> "mid_market" ],
      [ advisor_id |-> "adv_001", merchant_id |-> MCH \o <<"7">>,
        merchant_name |-> None, segment |-> None ] }

Topics == { <<"A", " ", "B">>, <<"a", "_", "b">>, <<"c">> }

Questions == { "What?", "what?" }

RecommendationInputs ==
    { [ type |-> "decline_optimization", priority |-> "high",
        description |-> "Review fraud settings",
        expected_impact |-> "Reduce false positives by 15%" ],
      [ type |-> "volume_increase", priority |-> "medium",
        description |-> "Marketing campaign", expected_impact |-> None ] }

Notes == { "Note 1" }

DataTypes == { "profile", "custom" }

\* The payloads are the caller's dicts, named by their identity
Payloads == { "p1", "p2" }

\* test_cache_expiration's configuration
test_config ==
    << [k |-> <<"profile", "_ttl_seconds">>, v |-> 1],
       [k |-> <<"metrics", "_ttl_seconds">>, v |-> 300],
       [k |-> <<"transactions", "_ttl_seconds">>, v |-> 60],
       [k |-> <<"alerts", "_ttl_seconds">>, v |-> 30] >>

CacheConfigs == { DEFAULT_CACHE_CONFIG, test_config }

\* What agent.invoke does: it raises, returns no messages, or returns messages
\* the last of which is the answer
AgentResults ==
    { [raises |-> TRUE, messages |-> <<>>],
      [raises |-> FALSE, messages |-> <<>>],
      [raises |-> FALSE, messages |-> <<"What is the decline rate?", "It is 2%">>] }

Queries == { "What is the decline rate?" }

\* Merchant ids as callers give them: bare, with the prefix, with the prefix
\* in capitals, and with digits that differ
MerchantIds ==
    { <<"7">>, MCH \o <<"7">>, <<"8">>, MCH \o <<"8">>, <<"7", "8">>,
      MCH \o <<"7", "8">>, <<"M", "C", "H", "_", "7">>, <<"m", "c", "h", "7">> }

\* Pieces of the texts merchant ids are looked for in: each form of an id, in
\* small letters and in capitals, and pieces that are the start of a form only
Fragments ==
    { MCH \o <<"1", "2">>,
      <<"M", "C", "H", "_", "3">>,
      MERCHANT \o <<" ", "i", "d", " ", "3", "4">>,
      <<"M", "e", "r", "c", "h", "a", "n", "t", " ", "\t", "I", "D", " ", "5">>,
      MERCHANT \o <<" ", "5", "6">>,
      <<"m", "7", "8">>,
      <<"i", "t", "e", "m", "9">>,
      MERCHANT,
      <<"i", "d">>,
      <<"4", "2">>,
      MCH,
      <<"n", "o">> }

\* The texts of n fragments with a blank between two
RECURSIVE TextsOf(_)
TextsOf(n) ==
    IF n = 1 THEN Fragments
    ELSE { t \o <<" ">> \o f : t \in TextsOf(n - 1), f \in Fragments }

Texts == UNION { TextsOf(n) : n \in 1..MaxFragments }

\* The advisor ids a session is started with; one of them the empty string
AdvisorIds == { "adv_001", "" }

\* What a session is started with: any advisor id, and any merchant id or the
\* empty one
SessionInputs ==
    { [ advisor_id |-> a, merchant_id |-> m,
        merchant_name |-> "TechRetail", segment |-> "mid_market" ] :
      a \in AdvisorIds, m \in MerchantIds \cup {<<>>} }

\* The environments sessions are started in: the key is there, and
\* ENABLE_CHECKPOINTING is not set, false or true
SessionEnvironments ==
    { [ OPENAI_API_KEY |-> Some("test-key"), ENABLE_CHECKPOINTING |-> e,
        CHECKPOINT_DB_PATH |-> NoString ] :
      e \in { NoChars, Some(<<"f", "a", "l", "s", "e">>), Some(<<"t", "r", "u", "e">>) } }

----------------------------------------------------------------------------
(* The caller: it starts one session, then threads the state through the   *)
(* manager's functions, each call on the state the previous one returned.  *)

Init ==
    /\ heap = <<>>
    /\ cur = 0
    /\ intact = TRUE
    /\ shared = {}
    /\ fresh = TRUE
    /\ op = [name |-> "none", args |-> <<>>]
    /\ ret = 0
    /\ clock = 0
    /\ init = <<>>
    /\ nops = 0
    /\ nticks = 0
    /\ db = no_database

\* Time passes between two calls; what the last call returned is then no longer
\* looked at
Tick ==
    \E d \in ClockSteps :
        /\ nticks < MaxTicks
        /\ clock' = clock + d
        /\ nticks' = nticks + 1
        /\ op' = [name |-> "tick", args |-> <<d>>]
        /\ ret' = 0
        /\ intact' = TRUE
        /\ shared' = {}
        /\ fresh' = TRUE
        /\ UNCHANGED <<heap, cur, init, nops, db>>

Initialize ==
    \E a \in InitInputs :
        LET r == initialize_session_state(heap, a.advisor_id, a.merchant_id,
                                          a.merchant_name, a.segment, clock)
        IN  /\ cur = 0
            /\ heap' = Collect(r.heap, <<r.ret>>)
            /\ cur' = 1
            /\ intact' = TRUE
            /\ shared' = {}
            /\ fresh' = TRUE
            /\ op' = [name |-> "initialize_session_state", args |-> a]
            /\ ret' = 1
            /\ init' = a
            /\ UNCHANGED <<clock, nops, nticks, db>>

\* The container fields in which states a and b hold the same object
SharedFields(h, a, b) == {f \in Elems(RefFields) : h[a][f] = h[b][f]}

\* state = f(state, ...): the caller keeps the state returned and drops the one
\* it passed in, once it has looked at what the call did to it
Update(name, args, r) ==
    LET order == Live(r.heap, <<r.ret>>)
    IN  /\ cur # 0
        /\ nops < MaxOps
        /\ heap' = Collect(r.heap, <<r.ret>>)
        /\ cur' = Addr(order, r.ret)
        /\ intact' = (Deep(r.heap, cur) = Deep(heap, cur))
        /\ shared' = SharedFields(r.heap, r.ret, cur)
        /\ fresh' = (r.ret # cur)
        /\ op' = [name |-> name, args |-> args]
        /\ ret' = Addr(order, r.ret)
        /\ nops' = nops + 1
        /\ UNCHANGED <<clock, init, nticks, db>>

\* A call that returns something else than a state: the references in the value
\* returned (fields refs) follow their objects
Query(name, args, r, refs) ==
    LET order == Live(r.heap, <<cur>>)
        v == r.ret.value
    IN  /\ cur # 0
        /\ nops < MaxOps
        /\ heap' = Collect(r.heap, <<cur>>)
        /\ cur' = Addr(order, cur)
        /\ intact' = (Deep(r.heap, cur) = Deep(heap, cur))
        /\ shared' = {}
        /\ fresh' = TRUE
        /\ op' = [name |-> name, args |-> args]
        /\ ret' = IF r.ret.exc = "none" /\ refs # {}
                  THEN [r.ret EXCEPT !.value =
                          [f \in DOMAIN v |-> IF f \in refs THEN Addr(order, v[f])
                                              ELSE v[f]]]
                  ELSE r.ret
        /\ nops' = nops + 1
        /\ UNCHANGED <<clock, init, nticks, db>>

IncrementQueryCount ==
    Update("increment_query_count", <<>>, increment_query_count(heap, cur, clock))

CacheData ==
    \E t \in DataTypes, p \in Payloads :
        Update("cache_data", <<t, p>>, cache_data(heap, cur, t, p, clock))

\* A lookup with telemetry that works or is not installed
GetCachedData ==
    \E t \in DataTypes, cfg \in CacheConfigs, tracing \in BOOLEAN :
        Query("get_cached_data",
              [data_type |-> t, cache_config |-> cfg, tracing |-> tracing, fault |-> "none"],
              get_cached_data(heap, cur, t, cfg, clock, tracing, "none"), {})

AddTopic ==
    \E topic \in Topics :
        Update("add_topic", <<topic>>, add_topic(heap, cur, topic))

AddRecommendation ==
    \E x \in RecommendationInputs :
        Update("add_recommendation", <<x>>,
               add_recommendation(heap, cur, x.type, x.priority, x.description,
                                  x.expected_impact, clock))

AddPendingQuestion ==
    \E q \in Questions :
        Update("add_pending_question", <<q>>, add_pending_question(heap, cur, q))

AddAdvisorNote ==
    \E n \in Notes :
        Update("add_advisor_note", <<n>>, add_advisor_note(heap, cur, n, clock))

GetSessionSummary ==
    Query("get_session_summary", <<>>, get_session_summary(heap, cur), {"topics"})

ExportSessionSummary ==
    Query("export_session_summary", <<>>, export_session_summary(heap, cur, clock),
          {"topics_discussed", "cached_at", "recommendations", "pending_questions",
           "advisor_notes", "working_data"})

Next ==
    \/ Tick
    \/ Initialize
    \/ IncrementQueryCount
    \/ CacheData
    \/ GetCachedData
    \/ AddTopic
    \/ AddRecommendation
    \/ AddPendingQuestion
    \/ AddAdvisorNote
    \/ GetSessionSummary
    \/ ExportSessionSummary

Spec == Init /\ [][Next]_vars

----------------------------------------------------------------------------
(* The same session with a telemetry library whose calls may raise *)

\* A lookup with opentelemetry installed or not, and a span that may fail
GetCachedDataTraced ==
    \E t \in DataTypes, cfg \in CacheConfigs, tracing \in BOOLEAN, fault \in SpanFaults :
        Query("get_cached_data",
              [data_type |-> t, cache_config |-> cfg, tracing |-> tracing, fault |-> fault],
              get_cached_data(heap, cur, t, cfg, clock, tracing, fault), {})

\* The thread id start_merchant_session gave the session
ThreadId == thread_id_of(init.merchant_id, fromisoformat(heap[cur].started_at))

\* response, state = run_query_in_session(agent, thread_id, state, query): the
\* caller has the new state if the call returns and keeps its own if it raises
RunQueryInSession ==
    \E a \in AgentResults, q \in Queries, tracing \in BOOLEAN :
        LET r == run_query_in_session(heap, a, ThreadId, cur, q, clock, tracing)
            ok == r.ret.exc = "none"
            root == IF ok THEN r.ret.state ELSE cur
            order == Live(r.heap, <<root>>)
        IN  /\ cur # 0
            /\ nops < MaxOps
            /\ heap' = Collect(r.heap, <<root>>)
            /\ cur' = Addr(order, root)
            /\ intact' = (Deep(r.heap, cur) = Deep(heap, cur))
            /\ shared' = IF ok THEN SharedFields(r.heap, root, cur) ELSE {}
            /\ fresh' = (root # cur \/ ~ok)
            /\ op' = [ name |-> "run_query_in_session",
                       args |-> [ agent |-> a, thread_id |-> ThreadId, query |-> q,
                                  tracing |-> tracing,
                                  total_queries |-> heap[cur].total_queries ] ]
            /\ ret' = [r.ret EXCEPT !.state = IF ok THEN Addr(order, root) ELSE 0]
            /\ nops' = nops + 1
            /\ UNCHANGED <<clock, init, nticks, db>>

TelemetryNext ==
    \/ Tick
    \/ Initialize
    \/ CacheData
    \/ GetCachedDataTraced
    \/ RunQueryInSession

TelemetrySpec == Init /\ [][TelemetryNext]_vars

----------------------------------------------------------------------------
(* Sessions started with merchant ids of every form, and the ids checked   *)
(* against them                                                            *)

\* agent, thread_id, state = start_merchant_session(...)
StartMerchantSession ==
    \E a \in SessionInputs, env \in SessionEnvironments :
        LET r == start_merchant_session(heap, db, env, a.advisor_id, a.merchant_id,
                                        a.merchant_name, a.segment, NoString, NoString, clock)
        IN  /\ cur = 0
            /\ heap' = Collect(r.heap, <<r.ret.state>>)
            /\ cur' = 1
            /\ intact' = TRUE
            /\ shared' = {}
            /\ fresh' = TRUE
            /\ op' = [name |-> "start_merchant_session", args |-> a, env |-> env]
            /\ ret' = [r.ret EXCEPT !.state = 1]
            /\ init' = a
            /\ db' = r.db
            /\ UNCHANGED <<clock, nops, nticks>>

ValidateMerchantMatch ==
    \E m \in MerchantIds :
        Query("validate_merchant_match", <<m>>, validate_merchant_match(heap, cur, m), {})

\* A new session started for the merchant of the current one, with the id as
\* the state stores it
Reinitialize ==
  \E env \in SessionEnvironments :
    LET a == [ advisor_id |-> heap[cur].advisor_id, merchant_id |-> heap[cur].merchant_id,
               merchant_name |-> heap[cur].merchant_name, segment |-> heap[cur].segment ]
        r == start_merchant_session(heap, db, env, a.advisor_id, a.merchant_id,
                                    a.merchant_name, a.segment, NoString, NoString, clock)
    IN  /\ cur # 0
        /\ nops < MaxOps
        /\ heap' = Collect(r.heap, <<r.ret.state>>)
        /\ cur' = 1
        /\ intact' = (Deep(r.heap, cur) = Deep(heap, cur))
        /\ shared' = SharedFields(r.heap, r.ret.state, cur)
        /\ fresh' = (r.ret.state # cur)
        /\ op' = [name |-> "start_merchant_session", args |-> a, env |-> env]
        /\ ret' = [r.ret EXCEPT !.state = 1]
        /\ init' = a
        /\ db' = r.db
        /\ nops' = nops + 1
        /\ UNCHANGED <<clock, nticks>>

IdNext ==
    \/ Tick
    \/ StartMerchantSession
    \/ ValidateMerchantMatch
    \/ Reinitialize

IdSpec == Init /\ [][IdNext]_vars

----------------------------------------------------------------------------
(* extract_merchant_id applied to a text *)

ExtractMerchantId ==
    \E text \in Texts :
        /\ op.name = "none"
        /\ op' = [name |-> "extract_merchant_id", args |-> <<text>>]
        /\ ret' = extract_merchant_id(text)
        /\ UNCHANGED <<heap, cur, intact, shared, fresh, clock, init, nops, nticks, db>>

ExtractNext == ExtractMerchantId

ExtractSpec == Init /\ [][ExtractNext]_vars

----------------------------------------------------------------------------
(* The session as the caller sees it *)

State == heap[cur]
Messages == heap[State.messages]
CachedData == heap[State.cached_data]
CachedAt == heap[State.cached_at]
TopicsDiscussed == heap[State.topics_discussed]
Recommendations == heap[State.recommendations]
PendingQuestions == heap[State.pending_questions]
AdvisorNotes == heap[State.advisor_notes]
WorkingData == heap[State.working_data]

Started == cur # 0

UpdateNames ==
    { "increment_query_count", "cache_data", "add_topic", "add_recommendation",
      "add_pending_question", "add_advisor_note" }

\* The last step was a call of the function named
Called(name) == op.name = name

----------------------------------------------------------------------------
(* Properties *)

\* C1: every update operation (increment_query_count, cache_data, add_topic,
\* add_recommendation, add_pending_question, add_advisor_note) returns a new
\* state and leaves the state passed in unchanged: after the call every field
\* of the input, the contents of its lists and maps included, has the value it
\* had before the call.
C1_InputUnchanged == op.name \in UpdateNames => intact /\ fresh

C1_Witness ==
    /\ Called("add_topic")
    /\ Len(TopicsDiscussed) = 2
    /\ TopicsDiscussed[2] = replace_space(lower(op.args[1]))
    /\ intact

\* C2: get_cached_data(state, t, cfg) returns the stored payload if and only if
\* t is a key of cached_data and now - cached_at[t] <= ttl(t, cfg); it returns
\* None when t is absent or when the age is strictly greater than the TTL, so a
\* lookup at an age equal to the TTL is a hit.
C2_HitIffWithinTtl ==
    Called("get_cached_data") =>
        LET t == op.args.data_type
            ttl == ttl_of(t, op.args.cache_config)
        IN  /\ ret.exc = "none"
            /\ IF /\ t \in Keys(CachedData)
                  /\ clock - fromisoformat(Get(CachedAt, t)) <= Seconds(ttl)
               THEN ret.value = Get(CachedData, t)
               ELSE ret.value = None

C2_Witness ==
    /\ Called("get_cached_data")
    /\ op.args.data_type \in Keys(CachedData)
    /\ fromisoformat(Get(CachedAt, op.args.data_type)) > 0
    /\ clock - fromisoformat(Get(CachedAt, op.args.data_type))
           = Seconds(ttl_of(op.args.data_type, op.args.cache_config))
    /\ ret.value = Get(CachedData, op.args.data_type)
    /\ ret.value # None

\* C3: in every state reachable from initialize_session_state by manager
\* operations the keys of cached_data are the keys of cached_at.
C3_CacheKeysAgree == Started => Keys(CachedData) = Keys(CachedAt)

C3_Witness ==
    /\ Started
    /\ Keys(CachedData) = DataTypes
    /\ Keys(CachedAt) = DataTypes

TotalQueries == State.total_queries
StartedAt == fromisoformat(State.started_at)
LastActivityAt == fromisoformat(State.last_activity_at)

\* The step is a call of the function named
Calls(name) == op'.name = name /\ nops' = nops + 1

IsPrefix(a, b) == Len(a) <= Len(b) /\ SubSeq(b, 1, Len(a)) = a

\* C4: each increment_query_count call raises total_queries by exactly 1,
\* last_activity_at never decreases from one state of the session to the next,
\* and no manager operation lowers total_queries.
C4_QueriesAndActivityMonotone ==
    [][ Started /\ Started' =>
          /\ TotalQueries' >= TotalQueries
          /\ LastActivityAt' >= LastActivityAt
          /\ Calls("increment_query_count") => TotalQueries' = TotalQueries + 1
      ]_vars

C4_Witness ==
    /\ Called("increment_query_count")
    /\ TotalQueries = 2
    /\ LastActivityAt > StartedAt
    /\ State.last_activity_at = isoformat(clock)

\* The id given to initialize_session_state
C5_Given == init.merchant_id

\* C5: in every state of a session, started with a bare id or with an id that
\* has the prefix 'mch_', merchant_id starts with 'mch_' and is the normalized
\* form of the id given to initialize_session_state.
C5_MerchantIdNormalized ==
    Started =>
        /\ Len(State.merchant_id) >= 4
        /\ SubSeq(State.merchant_id, 1, 4) = <<"m", "c", "h", "_">>
        /\ State.merchant_id =
               IF Len(C5_Given) >= 4 /\ SubSeq(C5_Given, 1, 4) = <<"m", "c", "h", "_">>
               THEN C5_Given
               ELSE <<"m", "c", "h", "_">> \o C5_Given

C5_Witness ==
    /\ Started
    /\ nops > 0
    /\ init.merchant_id = <<"m", "c", "h", "_", "7">>
    /\ State.merchant_id = <<"m", "c", "h", "_", "7">>

\* A topic as the specification normalizes it, on the characters the topics use
C6_Fold(c) ==
    CASE c = "A" -> "a"
      [] c = "B" -> "b"
      [] c = " " -> "_"
      [] OTHER -> c
C6_Norm(t) == [i \in 1..Len(t) |-> C6_Fold(t[i])]

\* C6: topics_discussed holds only normalized topics (lowercased, every space
\* replaced by an underscore), no two equal entries, in the order of their first
\* occurrence: add_topic appends the normalized topic when it is not yet listed
\* and leaves the list unchanged when it is.
C6_TopicsNormalizedInOrder ==
    [][ Started' =>
          /\ \A i \in 1..Len(TopicsDiscussed') :
                 TopicsDiscussed'[i] = C6_Norm(TopicsDiscussed'[i])
          /\ \A i, j \in 1..Len(TopicsDiscussed') :
                 i # j => TopicsDiscussed'[i] # TopicsDiscussed'[j]
          /\ Started =>
                 IF Calls("add_topic")
                 THEN TopicsDiscussed' =
                        IF C6_Norm(op'.args[1]) \in Elems(TopicsDiscussed)
                        THEN TopicsDiscussed
                        ELSE Append(TopicsDiscussed, C6_Norm(op'.args[1]))
                 ELSE TopicsDiscussed' = TopicsDiscussed
      ]_vars

C6_Witness ==
    /\ Called("add_topic")
    /\ op.args[1] = <<"A", " ", "B">>
    /\ TopicsDiscussed = << <<"a", "_", "b">>, <<"c">> >>

\* C7: add_pending_question appends the question if and only if the very same
\* string is not yet in pending_questions, so two questions that differ in letter
\* case only are both kept, whereas add_topic of a topic that differs from a listed
\* one in case or in space against underscore only adds nothing.
C7_DedupAsymmetry ==
    [][ Started =>
          /\ Calls("add_pending_question") =>
                 PendingQuestions' =
                     IF op'.args[1] \in Elems(PendingQuestions)
                     THEN PendingQuestions
                     ELSE Append(PendingQuestions, op'.args[1])
          /\ ( /\ Calls("add_topic")
               /\ \E e \in Elems(TopicsDiscussed) : C6_Norm(e) = C6_Norm(op'.args[1]) )
             => Len(TopicsDiscussed') = Len(TopicsDiscussed)
      ]_vars

C7_Witness ==
    /\ Called("add_pending_question")
    /\ PendingQuestions = <<"What?", "what?">>

\* C8: add_recommendation and add_advisor_note each put exactly one entry at the
\* end of their list, also when an equal entry is listed, and no manager operation
\* removes, reorders or changes an entry of recommendations or advisor_notes: each
\* earlier list is a prefix of every later one.
C8_AppendOnly ==
    [][ Started /\ Started' =>
          /\ IsPrefix(Recommendations, Recommendations')
          /\ IsPrefix(AdvisorNotes, AdvisorNotes')
          /\ Calls("add_recommendation") =>
                 /\ Len(Recommendations') = Len(Recommendations) + 1
                 /\ LET x == Recommendations'[Len(Recommendations')]
                        a == op'.args[1]
                    IN  /\ x.type = a.type
                        /\ x.priority = a.priority
                        /\ x.description = a.description
                        /\ x.expected_impact = a.expected_impact
                        /\ fromisoformat(x.created_at) = clock
          /\ Calls("add_advisor_note") =>
                 /\ Len(AdvisorNotes') = Len(AdvisorNotes) + 1
                 /\ AdvisorNotes'[Len(AdvisorNotes')].note = op'.args[1]
                 /\ fromisoformat(AdvisorNotes'[Len(AdvisorNotes')].timestamp) = clock
      ]_vars

C8_Witness ==
    /\ Called("add_recommendation")
    /\ Len(Recommendations) = 2
    /\ Recommendations[1] = Recommendations[2]
    /\ Len(AdvisorNotes) = 1

\* C9: initialize_session_state returns a state in which started_at equals
\* last_activity_at, total_queries is 0, messages, cached_data, cached_at,
\* topics_discussed, recommendations, pending_questions, advisor_notes and
\* working_data are empty, and advisor_id, merchant_name and segment are as given.
C9_InitialState ==
    Called("initialize_session_state") =>
        /\ State.started_at = State.last_activity_at
        /\ TotalQueries = 0
        /\ Len(Messages) = 0
        /\ Len(CachedData) = 0
        /\ Len(CachedAt) = 0
        /\ Len(TopicsDiscussed) = 0
        /\ Len(Recommendations) = 0
        /\ Len(PendingQuestions) = 0
        /\ Len(AdvisorNotes) = 0
        /\ Len(WorkingData) = 0
        /\ State.advisor_id = op.args.advisor_id
        /\ State.merchant_name = op.args.merchant_name
        /\ State.segment = op.args.segment

C9_Witness ==
    /\ Called("initialize_session_state")
    /\ clock > 0
    /\ State.merchant_name = "TechRetail"
    /\ State.segment = "mid_market"
    /\ State.started_at = isoformat(clock)

\* The form ses_YYYYMMDD_HHMMSS_xxxxxxxx
Digits == {"0", "1", "2", "3", "4", "5", "6", "7", "8", "9"}
C10_WellFormed(id) ==
    /\ Len(id) = 28
    /\ SubSeq(id, 1, 4) = <<"s", "e", "s", "_">>
    /\ \A i \in 5..12 : id[i] \in Digits
    /\ id[13] = "_"
    /\ \A i \in 14..19 : id[i] \in Digits
    /\ id[20] = "_"
    /\ \A i \in 21..28 : id[i] # "_"

\* C10: the state initialize_session_state returns carries a session_id of the
\* form ses_<8 digits>_<6 digits>_<8 characters>, and get_session_summary and
\* export_session_summary report the session_id of the state.
C10_SessionId ==
    /\ Started =>
          /\ "session_id" \in DOMAIN State
          /\ C10_WellFormed(State.session_id)
    /\ (Called("get_session_summary") \/ Called("export_session_summary")) =>
          /\ "session_id" \in DOMAIN ret.value
          /\ ret.value.session_id = State.session_id

\* The TTL of data type t under configuration cfg, as the configuration's
\* entries give it
C11_Entry(t, cfg) == {i \in 1..Len(cfg) : cfg[i].k = <<t, "_ttl_seconds">>}
C11_Ttl(t, cfg) ==
    IF C11_Entry(t, cfg) = {} THEN 300 ELSE cfg[CHOOSE i \in C11_Entry(t, cfg) : TRUE].v

\* C11: the TTL get_cached_data applies to data type t is the value of
\* '<t>_ttl_seconds' in the configuration of the call and 300 seconds when the
\* configuration has no such key: the lookup of a cached type hits exactly up
\* to that age and reports that TTL on its span; the configuration used when
\* none is passed gives profile 1800, metrics 300, transactions 60 and alerts
\* 30 seconds.
C11_TtlFromConfig ==
    /\ C11_Ttl("profile", DEFAULT_CACHE_CONFIG) = 1800
    /\ C11_Ttl("metrics", DEFAULT_CACHE_CONFIG) = 300
    /\ C11_Ttl("transactions", DEFAULT_CACHE_CONFIG) = 60
    /\ C11_Ttl("alerts", DEFAULT_CACHE_CONFIG) = 30
    /\ Len(DEFAULT_CACHE_CONFIG) = 4
    /\ (Called("get_cached_data") /\ op.args.data_type \in Keys(CachedData)) =>
          LET t == op.args.data_type
              ttl == C11_Ttl(t, op.args.cache_config)
              age == clock - fromisoformat(Get(CachedAt, t))
          IN  /\ (ret.value = Get(CachedData, t)) <=> (age <= ttl * TicksPerSecond)
              /\ op.args.tracing =>
                    /\ "cache.ttl_seconds" \in Keys(ret.span)
                    /\ Get(ret.span, "cache.ttl_seconds") = ttl

\* a type the configuration has no key for is still a hit at an age at which
\* the configuration's one-second entry would have expired it
C11_Witness ==
    /\ Called("get_cached_data")
    /\ op.args.data_type = "custom"
    /\ op.args.cache_config = test_config
    /\ op.args.tracing
    /\ "custom" \in Keys(CachedData)
    /\ clock - fromisoformat(Get(CachedAt, "custom")) > 1 * TicksPerSecond
    /\ Get(ret.span, "cache.ttl_seconds") = 300
    /\ ret.value = Get(CachedData, "custom")

\* A lookup of data type t in the session's state, with no telemetry
C12_Lookup(t, cfg) == get_cached_data(heap, cur, t, cfg, clock, FALSE, "none").ret

\* C12: cache_data(state, t, p) on a state that already holds data type t
\* stores p itself as the payload of t and the current time as cached_at[t],
\* leaves every other cached type, its payload and its timestamp as they were,
\* and a lookup of t right after the call is a hit that returns p under every
\* configuration.
C12_Overwrite ==
    [][ (Started /\ Calls("cache_data") /\ op'.args[1] \in Keys(CachedData)) =>
          LET t == op'.args[1]
              p == op'.args[2]
          IN  /\ KeyList(CachedData') = KeyList(CachedData)
              /\ KeyList(CachedAt') = KeyList(CachedAt)
              /\ Get(CachedData', t) = p
              /\ Get(CachedAt', t) = isoformat(clock')
              /\ \A u \in Keys(CachedData) \ {t} :
                    /\ Get(CachedData', u) = Get(CachedData, u)
                    /\ Get(CachedAt', u) = Get(CachedAt, u)
              /\ \A cfg \in CacheConfigs :
                    LET r == get_cached_data(heap', cur', t, cfg, clock', FALSE, "none").ret
                    IN  r.exc = "none" /\ r.value = p
      ]_vars

\* profile was cached before custom and custom is older than profile's TTL of
\* test_config, so the entry of profile had expired when this call replaced it
C12_Witness ==
    /\ Called("cache_data")
    /\ op.args[1] = "profile"
    /\ KeyList(CachedData) = <<"profile", "custom">>
    /\ clock - fromisoformat(Get(CachedAt, "custom")) > Seconds(ttl_of("profile", test_config))
    /\ Get(CachedAt, "profile") = isoformat(clock)
    /\ Get(CachedData, "profile") = op.args[2]
    /\ Get(CachedData, "custom") # op.args[2]
    /\ C12_Lookup("profile", test_config).value = op.args[2]

\* The miss reason on the span of the last lookup, None if it has none
C13_MissReason ==
    IF "cache.miss_reason" \in Keys(ret.span) THEN Get(ret.span, "cache.miss_reason")
    ELSE None

\* C13: in a state whose cached_data and cached_at have the same keys,
\* get_cached_data raises nothing; on a type that is absent, or present and
\* older than its TTL, it returns None; and the miss reason on its span is
\* 'not_found' exactly when the type is absent and 'expired' exactly when the
\* type is present and older than its TTL.
C13_MissIsNoException ==
    (Called("get_cached_data") /\ Keys(CachedData) = Keys(CachedAt)) =>
        LET t == op.args.data_type
            absent == t \notin Keys(CachedData)
            old == /\ ~absent
                   /\ clock - fromisoformat(Get(CachedAt, t))
                        > Seconds(ttl_of(t, op.args.cache_config))
        IN  /\ ret.exc = "none"
            /\ (absent \/ old) => ret.value = None
            /\ op.args.tracing =>
                  /\ (C13_MissReason = "not_found") <=> absent
                  /\ (C13_MissReason = "expired") <=> old
                  /\ C13_MissReason \in {"not_found", "expired", None}
            /\ ~op.args.tracing => ret.span = <<>>

\* test_cache_expiration with a span: a type cached and looked up after its TTL
C13_Witness ==
    /\ Called("get_cached_data")
    /\ op.args.tracing
    /\ op.args.data_type \in Keys(CachedData)
    /\ ret.exc = "none"
    /\ ret.value = None
    /\ C13_MissReason = "expired"
    /\ Get(ret.span, "cache.hit") = FALSE

\* C14: an error raised while the cache_lookup span is started, given an
\* attribute or ended does not leave get_cached_data: the call raises and
\* returns what it raises and returns on the same state with no telemetry.
C14_SpanErrorsCaught ==
    Called("get_cached_data") =>
        LET plain == get_cached_data(heap, cur, op.args.data_type, op.args.cache_config,
                                     clock, FALSE, "none").ret
        IN  /\ ret.exc = plain.exc
            /\ ret.value = plain.value

\* The names of the events the span of the last query received, in order
C15_EventNames == [i \in 1..Len(ret.span) |-> ret.span[i].name]
C15_Queries(i) == Get(ret.span[i].attributes, "session.total_queries")

\* C15: a query run through run_query_in_session with tracing available, whose
\* agent returns, gives the span the events user_message,
\* session_snapshot_before, assistant_message, session_snapshot_after in this
\* order, the before snapshot with the total_queries of the state passed in
\* and the after snapshot with one more.
C15_SnapshotPairing ==
    (Called("run_query_in_session") /\ op.args.tracing /\ ~op.args.agent.raises) =>
        /\ C15_EventNames = << "user_message", "session_snapshot_before",
                               "assistant_message", "session_snapshot_after" >>
        /\ C15_Queries(2) = op.args.total_queries
        /\ C15_Queries(4) = op.args.total_queries + 1

\* C16: run_query_in_session, when its agent returns, returns the agent's
\* response text and a state whose total_queries is the input's plus 1,
\* with tracing available as without it.
C16_SameResultWithTracing ==
    (Called("run_query_in_session") /\ ~op.args.agent.raises) =>
        /\ ret.exc = "none"
        /\ ret.value = response_text_of(op.args.agent.messages)
        /\ ret.state = cur
        /\ TotalQueries = op.args.total_queries + 1

\* The id with 'mch_' in front unless it starts with 'mch_'
C17_Normal(m) == IF IsPrefix(MCH, m) THEN m ELSE MCH \o m

\* C17: validate_merchant_match(state, m) is true if and only if the normalized
\* form of m is state.merchant_id: for a session started with id x, x and
\* 'mch_' + x validate as true when x is bare, and an id whose digits differ
\* validates as false with and without the prefix.
C17_ValidateIffNormalizedEqual ==
    Called("validate_merchant_match") =>
        LET m == op.args[1]
            x == init.merchant_id
        IN  /\ ret.exc = "none"
            /\ ret.value <=> (C17_Normal(m) = State.merchant_id)
            /\ m = x => ret.value
            /\ (~IsPrefix(MCH, x) /\ m = MCH \o x) => ret.value
            /\ (x \in {<<"7">>, MCH \o <<"7">>} /\ m \in {<<"8">>, MCH \o <<"8">>})
                  => ~ret.value

\* Scenario D: a session for mch_7 and the bare id 7
C17_Witness ==
    /\ Called("validate_merchant_match")
    /\ init.merchant_id = MCH \o <<"7">>
    /\ op.args[1] = <<"7">>
    /\ ret.value = TRUE

\* The merchant part of a thread id
C18_MerchantOf(tid) == tid[2]

\* C18: normalizing a normalized id changes nothing at any of the three
\* places: the merchant_id of every state starts with 'mch_' exactly once
\* more than the id given did not, a session started again with the stored
\* merchant_id has the same merchant_id, the stored id validates against its
\* own state, and the merchant part of the thread id is the stored id.
C18_NormalizeIdempotent ==
    /\ Started =>
          /\ State.merchant_id = C17_Normal(init.merchant_id)
          /\ C17_Normal(State.merchant_id) = State.merchant_id
          /\ validate_merchant_match(heap, cur, State.merchant_id).ret.value
    /\ Called("start_merchant_session") =>
          /\ C18_MerchantOf(ret.thread_id) = State.merchant_id
          /\ IsPrefix(MCH, init.merchant_id) =>
                /\ State.merchant_id = init.merchant_id
                /\ C18_MerchantOf(ret.thread_id) = init.merchant_id

\* a session started again with the id the state of the first one stores
C18_Witness ==
    /\ Called("start_merchant_session")
    /\ nops > 0
    /\ op.args.merchant_id = MCH \o <<"7">>
    /\ State.merchant_id = MCH \o <<"7">>
    /\ C18_MerchantOf(ret.thread_id) = MCH \o <<"7">>

\* Character c is letter w in small or in capital
C19_Capitals ==
    { <<"M", "m">>, <<"C", "c">>, <<"H", "h">>, <<"E", "e">>, <<"R", "r">>,
      <<"A", "a">>, <<"N", "n">>, <<"T", "t">>, <<"I", "i">>, <<"D", "d">> }
C19_Is(c, w) == c = w \/ <<c, w>> \in C19_Capitals

\* Word w stands at position i of the text, in any case
C19_Word(text, i, w) ==
    /\ i >= 1
    /\ i + Len(w) - 1 <= Len(text)
    /\ \A k \in 1..Len(w) : C19_Is(text[i + k - 1], w[k])

\* Positions a..b of the text are one or more white-space characters
C19_Blank(text, a, b) == a <= b /\ \A k \in a..b : text[k] \in {" ", "\t"}

C19_Digit(text, d) == d >= 1 /\ d <= Len(text) /\ text[d] \in Digits

\* The positions at which word w stands in the text
C19_At(text, w) == { i \in 1..Len(text) : C19_Word(text, i, w) }

\* After 'merchant' at i: white space, then the digits at d
C19_Bare(text, i, d) == C19_Blank(text, i + 8, d - 1) /\ C19_Digit(text, d)

\* After 'merchant' at i: white space, 'id', white space, then the digits at d
C19_WithId(text, i, d) ==
    \E a \in (i + 9)..(d - 3) :
        /\ C19_Blank(text, i + 8, a - 1)
        /\ C19_Word(text, a, <<"i", "d">>)
        /\ C19_Blank(text, a + 2, d - 1)
        /\ C19_Digit(text, d)

\* The pairs <<i, d>> such that form n of an id starts at i with its digits at d
C19_Matches(n, text) ==
    CASE n = 1 -> { <<i, i + 4>> : i \in { i \in C19_At(text, MCH) : C19_Digit(text, i + 4) } }
      [] n = 2 -> UNION { { <<i, d>> : d \in { d \in (i + 9)..Len(text) : C19_WithId(text, i, d) } }
                          : i \in C19_At(text, MERCHANT) }
      [] n = 3 -> UNION { { <<i, d>> : d \in { d \in (i + 9)..Len(text) : C19_Bare(text, i, d) } }
                          : i \in C19_At(text, MERCHANT) }
      [] n = 4 -> { <<i, i + 1>> : i \in { i \in C19_At(text, <<"m">>) : C19_Digit(text, i + 1) } }

\* The digits of the text from position d up to the first character that is
\* no digit
C19_Digits(text, d) ==
    LET e == CHOOSE e \in d..Len(text) :
                 /\ \A k \in d..e : text[k] \in Digits
                 /\ e = Len(text) \/ text[e + 1] \notin Digits
    IN  SubSeq(text, d, e)

\* C19: extract_merchant_id returns 'mch_' followed by the digits of the
\* first of the forms 'mch_<digits>', 'merchant id <digits>',
\* 'merchant <digits>', 'm<digits>' (in this order, in any case) that occurs
\* anywhere in the text, at its leftmost occurrence, wherever forms later in
\* the order occur; it returns the not-found value exactly when none occurs.
C19_PriorityOrder ==
    Called("extract_merchant_id") =>
        LET text == op.args[1]
            forms == { n \in 1..4 : C19_Matches(n, text) # {} }
            n == CHOOSE n \in forms : \A k \in forms : n <= k
            x == CHOOSE x \in C19_Matches(n, text) :
                     \A y \in C19_Matches(n, text) : x[1] <= y[1]
        IN  IF forms = {} THEN ~ret.found
            ELSE ret.found /\ ret.value = MCH \o C19_Digits(text, x[2])

\* "m78 mch_12": the form of the lowest rank comes first in the text
C19_Witness ==
    /\ Called("extract_merchant_id")
    /\ op.args[1] = <<"m", "7", "8", " ">> \o MCH \o <<"1", "2">>
    /\ ret.found
    /\ ret.value = MCH \o <<"1", "2">>

\* C20: the export of a state holds the topics, recommendations, pending
\* questions and advisor notes of the state, each list whole and in the
\* state's order, and its four counts are the lengths of these lists.
C20_ExportComplete ==
    Called("export_session_summary") =>
        LET e == ret.value
        IN  /\ ret.exc = "none"
            /\ heap[e.topics_discussed] = TopicsDiscussed
            /\ heap[e.recommendations] = Recommendations
            /\ heap[e.pending_questions] = PendingQuestions
            /\ heap[e.advisor_notes] = AdvisorNotes
            /\ e.topics_count = Len(TopicsDiscussed)
            /\ e.recommendations_count = Len(Recommendations)
            /\ e.pending_questions_count = Len(PendingQuestions)
            /\ e.advisor_notes_count = Len(AdvisorNotes)

\* an export of a state with a note and a recommendation and no question
C20_Witness ==
    /\ Called("export_session_summary")
    /\ ret.exc = "none"
    /\ ret.value.advisor_notes_count = 1
    /\ ret.value.recommendations_count = 1
    /\ ret.value.pending_questions_count = 0
    /\ heap[ret.value.advisor_notes][1].note = "Note 1"
    /\ heap[ret.value.recommendations][1].type = "decline_optimization"

\* C22: in every state reached from initialize_session_state by manager
\* operations last_activity_at is not before started_at, so the
\* duration_seconds that get_session_summary computes as their difference is
\* greater than or equal to 0.
C22_DurationNonNegative ==
    /\ Started => LastActivityAt - StartedAt >= 0
    /\ Called("get_session_summary") =>
          /\ ret.exc = "none"
          /\ ret.value.duration_seconds = LastActivityAt - StartedAt
          /\ ret.value.duration_seconds >= 0

\* a summary of a session whose last query came after its start
C22_Witness ==
    /\ Called("get_session_summary")
    /\ TotalQueries > 0
    /\ ret.value.duration_seconds > 0

----------------------------------------------------------------------------
(* The four views of one session: the summary, the export, the snapshot for *)
(* tracing and the printed report                                           *)

CreateSessionSnapshot ==
    Query("create_session_snapshot", [thread_id |-> ThreadId],
          create_session_snapshot(heap, cur, ThreadId, clock), {})

PrintSessionState ==
    \E detailed \in BOOLEAN :
        Query("print_session_state", [detailed |-> detailed],
              print_session_state(heap, cur, detailed), {})

ViewNext ==
    \/ Tick
    \/ Initialize
    \/ IncrementQueryCount
    \/ CacheData
    \/ GetCachedData
    \/ AddTopic
    \/ AddRecommendation
    \/ AddPendingQuestion
    \/ AddAdvisorNote
    \/ GetSessionSummary
    \/ ExportSessionSummary
    \/ CreateSessionSnapshot
    \/ PrintSessionState

ViewSpec == Init /\ [][ViewNext]_vars

\* snapshot[key]
Value(snapshot, key) == snapshot[CHOOSE i \in 1..Len(snapshot) : snapshot[i].k = key].v

\* The derived values of a view, in the order duration, queries, topics,
\* recommendations, pending questions, advisor notes, cached data types
C21_OfSummary(v) ==
    << v.duration_seconds, v.total_queries, v.topics_count, v.recommendations_count,
       v.pending_questions_count, v.advisor_notes_count, Len(v.cached_data_types) >>

C21_OfSnapshot(v) ==
    << Value(v, <<"session.duration_seconds">>), Value(v, <<"session.total_queries">>),
       Value(v, <<"session.topics_count">>), Value(v, <<"session.recommendations_count">>),
       Value(v, <<"session.pending_questions_count">>),
       Value(v, <<"session.advisor_notes_count">>),
       Value(v, <<"session.cached_types_count">>) >>

C21_OfPrint(v) ==
    << v.duration_seconds, v.lines.total_queries, v.lines.topics, v.lines.recommendations,
       v.lines.pending_questions, v.lines.advisor_notes, v.lines.cached_data >>

C21_OfState ==
    << LastActivityAt - StartedAt, TotalQueries, Len(TopicsDiscussed), Len(Recommendations),
       Len(PendingQuestions), Len(AdvisorNotes), Len(CachedData) >>

\* C21: on every reachable state get_session_summary, export_session_summary,
\* create_session_snapshot and print_session_state derive the same
\* duration_seconds and the same counts of queries, topics, recommendations,
\* pending questions, advisor notes and cached data types, and the view that
\* was just called returned those values.
C21_ViewsAgree ==
    Started =>
        LET summary == get_session_summary(heap, cur).ret
            export == export_session_summary(heap, cur, clock).ret
            snapshot == create_session_snapshot(heap, cur, ThreadId, clock).ret
            printed == print_session_state(heap, cur, TRUE).ret
        IN  /\ summary.exc = "none" /\ export.exc = "none"
            /\ snapshot.exc = "none" /\ printed.exc = "none"
            /\ C21_OfSummary(summary.value) = C21_OfSummary(export.value)
            /\ C21_OfSummary(export.value) = C21_OfSnapshot(snapshot.value)
            /\ C21_OfSnapshot(snapshot.value) = C21_OfPrint(printed.value)
            /\ C21_OfPrint(printed.value) = C21_OfState
            /\ Called("get_session_summary") => C21_OfSummary(ret.value) = C21_OfState
            /\ Called("export_session_summary") => C21_OfSummary(ret.value) = C21_OfState
            /\ Called("create_session_snapshot") => C21_OfSnapshot(ret.value) = C21_OfState
            /\ Called("print_session_state") => C21_OfPrint(ret.value) = C21_OfState

C21_Witness ==
    /\ Called("create_session_snapshot")
    /\ LastActivityAt - StartedAt > 0
    /\ clock > LastActivityAt
    /\ Len(CachedData) > 0

\* s.split(", ") of a joined string
RECURSIVE C23_Split(_, _)
C23_Split(s, piece) ==
    IF Len(s) = 0 THEN <<piece>>
    ELSE IF s[1] = ", " THEN <<piece>> \o C23_Split(Tail(s), <<>>)
    ELSE C23_Split(Tail(s), Append(piece, s[1]))

\* The keys of a snapshot that are cache ages
C23_AgeKeys(snapshot) ==
    { snapshot[i].k : i \in { j \in 1..Len(snapshot) : snapshot[j].k[1] = "cache_age_" } }

\* C23: create_session_snapshot returns a flat map (no key twice, every value
\* a string or a number) with exactly one key cache_age_<type> for each data
\* type in the cache, whose value is now minus cached_at[type] and is not
\* negative; session.cached_types_count is the number of those keys, and the
\* topics and the cached type names are each one string joined with ", ".
C23_SnapshotFlat ==
    Called("create_session_snapshot") =>
        /\ ret.exc = "none"
        /\ LET snapshot == ret.value
               types == { CachedData[i].k : i \in 1..Len(CachedData) }
           IN  /\ \A i, j \in 1..Len(snapshot) : snapshot[i].k = snapshot[j].k => i = j
               /\ \A i \in 1..Len(snapshot) : snapshot[i].t \in {"str", "int", "float"}
               /\ C23_AgeKeys(snapshot) = { <<"cache_age_", t>> : t \in types }
               /\ \A t \in types :
                     /\ Value(snapshot, <<"cache_age_", t>>)
                            = clock - fromisoformat(Get(CachedAt, t))
                     /\ Value(snapshot, <<"cache_age_", t>>) >= 0
               /\ Value(snapshot, <<"session.cached_types_count">>)
                      = Cardinality(C23_AgeKeys(snapshot))
               /\ IF Len(TopicsDiscussed) = 0
                  THEN Value(snapshot, <<"session.topics">>) = <<>>
                  ELSE C23_Split(Value(snapshot, <<"session.topics">>), <<>>)
                          = TopicsDiscussed
               /\ IF Len(CachedData) = 0
                  THEN Value(snapshot, <<"session.cached_data_types">>) = <<>>
                  ELSE C23_Split(Value(snapshot, <<"session.cached_data_types">>), <<>>)
                          = [i \in 1..Len(CachedData) |-> <<CachedData[i].k>>]

C23_Witness ==
    /\ Called("create_session_snapshot")
    /\ ret.exc = "none"
    /\ Len(CachedData) = 2
    /\ \E i \in 1..Len(ret.value) :
          ret.value[i].k[1] = "cache_age_" /\ ret.value[i].v > 0

\* C24: initialize_session_state rejects an empty advisor_id and an empty
\* merchant_id, so that no session has an empty advisor_id or a merchant_id
\* that is the bare prefix "mch_".
C24_EmptyIdsRejected ==
    Started => State.advisor_id # "" /\ State.merchant_id # MCH

----------------------------------------------------------------------------
(* A session whose stored timestamps the holder of the state may overwrite  *)
(* with text that is no timestamp                                           *)

\* Strings datetime.fromisoformat rejects: the empty one and one with a part
\* too many
Malformed == { <<>>, <<0, 0, 0>> }

\* state[field] = text, or state["cached_at"][data_type] = text, done by the
\* holder of the state: SessionState is a plain dict of str fields
Corrupt ==
    \E m \in Malformed :
        /\ cur # 0
        /\ nops < MaxOps
        /\ \/ \E f \in {"started_at", "last_activity_at"} :
                 /\ heap' = [heap EXCEPT ![cur][f] = m]
                 /\ op' = [name |-> "corrupt", args |-> <<f, m>>]
           \/ \E t \in Keys(heap[heap[cur].cached_at]) :
                 /\ heap' = [heap EXCEPT ![heap[cur].cached_at] = Put(@, t, m)]
                 /\ op' = [name |-> "corrupt", args |-> <<t, m>>]
        /\ ret' = 0
        /\ intact' = TRUE
        /\ shared' = {}
        /\ fresh' = TRUE
        /\ nops' = nops + 1
        /\ UNCHANGED <<cur, clock, init, nticks, db>>

\* A snapshot asked for with the thread id of a session of this merchant
\* started at some time up to now
CreateSessionSnapshotOfThread ==
    \E t \in 0..clock :
        Query("create_session_snapshot", [thread_id |-> thread_id_of(init.merchant_id, t)],
              create_session_snapshot(heap, cur, thread_id_of(init.merchant_id, t), clock),
              {})

CorruptNext ==
    \/ Tick
    \/ Initialize
    \/ IncrementQueryCount
    \/ CacheData
    \/ Corrupt
    \/ GetCachedData
    \/ GetSessionSummary
    \/ ExportSessionSummary
    \/ CreateSessionSnapshotOfThread

CorruptSpec == Init /\ [][CorruptNext]_vars

\* started_at or last_activity_at of the session does not parse
C25_BadSessionTime == ~parses(State.started_at) \/ ~parses(State.last_activity_at)

\* C25: an operation that reads a stored timestamp that does not parse raises
\* and returns no value: get_cached_data on a data type that is in the cache
\* and whose cached_at entry does not parse raises ValueError instead of
\* giving a hit or a miss, and get_session_summary, export_session_summary and
\* create_session_snapshot raise ValueError when started_at or
\* last_activity_at does not parse.
C25_MalformedTimestampRaises ==
    /\ Called("get_cached_data")
          /\ op.args.data_type \in Keys(CachedData)
          /\ op.args.data_type \in Keys(CachedAt)
          /\ ~parses(Get(CachedAt, op.args.data_type))
          => ret.exc = "ValueError" /\ ret.value = None
    /\ (Called("get_session_summary") \/ Called("export_session_summary")
           \/ Called("create_session_snapshot")) /\ C25_BadSessionTime
          => ret.exc = "ValueError" /\ ret.value = None

C25_Witness ==
    /\ Called("get_cached_data")
    /\ op.args.tracing
    /\ op.args.data_type \in Keys(CachedData)
    /\ ~parses(Get(CachedAt, op.args.data_type))
    /\ ret.exc = "ValueError"

\* The same for the summary of a session whose started_at was overwritten
C25_SummaryWitness ==
    /\ Called("get_session_summary")
    /\ ~parses(State.started_at)
    /\ ret.exc = "ValueError"

----------------------------------------------------------------------------
(* A session started for a merchant and the queries run on its thread *)

ThreadNext ==
    \/ Tick
    \/ StartMerchantSession
    \/ RunQueryInSession

ThreadSpec == Init /\ [][ThreadNext]_vars

\* C26: the thread id start_merchant_session returns has the parts
\* "merchant_", the normalized merchant id, "_" and the time to the second, and
\* its merchant part is the merchant_id of the state returned; every call of
\* agent.invoke that run_query_in_session makes carries exactly the thread id
\* the function was given, and a call that returns or fails in the agent made
\* exactly one.
C26_ThreadIdPassedOn ==
    /\ Called("start_merchant_session") =>
          /\ Len(ret.thread_id) = 4
          /\ ret.thread_id[1] = "merchant_"
          /\ ret.thread_id[2] = State.merchant_id
          /\ IsPrefix(MCH, ret.thread_id[2])
          /\ ret.thread_id[3] = "_"
          /\ ret.thread_id[4] = clock \div TicksPerSecond
    /\ Called("run_query_in_session") =>
          /\ \A i \in 1..Len(ret.invoked) :
                ret.invoked[i].config.configurable.thread_id = op.args.thread_id
          /\ ret.exc \in {"none", "AgentError"} => Len(ret.invoked) = 1
          /\ op.args.thread_id[2] = State.merchant_id

\* the second query of a session, run in a later second than the one the
\* session started in
C26_Witness ==
    /\ Called("run_query_in_session")
    /\ ret.exc = "none"
    /\ TotalQueries = 2
    /\ Len(ret.invoked) = 1
    /\ clock \div TicksPerSecond > op.args.thread_id[4]

----------------------------------------------------------------------------
(* The session utilities on a checkpoint database an agent may write to *)

\* Most checkpoints the agent saves
MaxCheckpoints == 3

\* A call of a utility or a write of the checkpointer
DbCall(name, args, r) ==
    /\ nops < MaxOps
    /\ db' = r.db
    /\ op' = [name |-> name, args |-> args]
    /\ ret' = r.ret
    /\ nops' = nops + 1
    /\ UNCHANGED <<heap, cur, intact, shared, fresh, clock, init, nticks>>

\* An agent with session memory is invoked on a thread and saves a checkpoint
PutCheckpoint ==
    \E i \in 1..Len(ThreadIds) :
        /\ db.next <= MaxCheckpoints
        /\ db' = put_checkpoint(db, ThreadIds[i])
        /\ op' = [name |-> "put_checkpoint", args |-> <<ThreadIds[i]>>]
        /\ ret' = 0
        /\ UNCHANGED <<heap, cur, intact, shared, fresh, clock, init, nops, nticks>>

GetSessionHistory ==
    \E i \in 1..Len(ThreadIds) :
        DbCall("get_session_history", <<ThreadIds[i]>>, get_session_history(db, ThreadIds[i]))

ListActiveSessions ==
    DbCall("list_active_sessions", <<>>, list_active_sessions(db))

ClearSession ==
    \E i \in 1..Len(ThreadIds) :
        DbCall("clear_session", <<ThreadIds[i]>>, clear_session(db, ThreadIds[i]))

GetSessionInfo ==
    \E i \in 1..Len(ThreadIds) :
        DbCall("get_session_info", <<ThreadIds[i]>>, get_session_info(db, ThreadIds[i]))

ClearAllSessions ==
    DbCall("clear_all_sessions", <<>>, clear_all_sessions(db))

DbNext ==
    \/ PutCheckpoint
    \/ GetSessionHistory
    \/ ListActiveSessions
    \/ ClearSession
    \/ GetSessionInfo
    \/ ClearAllSessions

DbSpec == Init /\ [][DbNext]_vars

\* The five utilities and what each returns when it finds nothing
C27_Empty ==
    [ get_session_history |-> <<>>, list_active_sessions |-> <<>>,
      get_session_info |-> None, clear_session |-> 0, clear_all_sessions |-> 0 ]

\* C27: a session utility called on a database that has no table checkpoints
\* returns its empty result (an empty list from list_active_sessions and
\* get_session_history, None from get_session_info, 0 from clear_session and
\* clear_all_sessions), raises nothing, and leaves the database without the
\* table and without rows.
C27_NoTableEmptyResult ==
    [][ (~db.table /\ nops' = nops + 1 /\ op'.name \in DOMAIN C27_Empty)
           => /\ ret'.exc = "none"
              /\ ret'.value = C27_Empty[op'.name]
              /\ ~db'.table
              /\ db'.rows = <<>>
              /\ db'.next = db.next ]_vars

C27_Witness ==
    /\ Called("clear_session")
    /\ nops = MaxOps
    /\ ~db.table
    /\ db.file
    /\ ret = [value |-> 0, exc |-> "none"]

----------------------------------------------------------------------------
(* Agents created in every environment and with every choice of arguments *)

\* Spellings of ENABLE_CHECKPOINTING
Spellings ==
    { <<"t", "r", "u", "e">>, <<"T", "R", "U", "E">>, <<"T", "r", "u", "e">>, <<"1">>,
      <<"y", "e", "s">>, <<"Y", "E", "S">>, <<"f", "a", "l", "s", "e">>, <<"0">>,
      <<"n", "o">>, <<"o", "n">>, <<" ", "t", "r", "u", "e">>, <<>> }

Environments ==
    { [ OPENAI_API_KEY |-> k, ENABLE_CHECKPOINTING |-> e, CHECKPOINT_DB_PATH |-> p ] :
      k \in { NoString, Some(""), Some("test-key") },
      e \in { NoChars } \cup { Some(x) : x \in Spellings },
      p \in { NoString, Some("env.db") } }

AgentArgs ==
    { [ model |-> m, enable_checkpointing |-> e, checkpoint_db_path |-> p ] :
      m \in { NoString, Some("gpt-4o-mini") },
      e \in { [set |-> FALSE, value |-> FALSE], Some(TRUE), Some(FALSE) },
      p \in { NoString, Some(""), Some("custom.db") } }

\* A call of one of the two functions, the first thing done
Create(name, env, args, r) ==
    /\ op.name = "none"
    /\ op' = [name |-> name, env |-> env, args |-> args]
    /\ ret' = r.ret
    /\ db' = r.db
    /\ UNCHANGED <<heap, cur, intact, shared, fresh, clock, init, nops, nticks>>

CreateAgent ==
    \E env \in Environments, a \in AgentArgs :
        Create("create_agent", env, a,
               create_agent(db, env, a.model, a.enable_checkpointing, a.checkpoint_db_path))

CreateAgentWithCustomMiddleware ==
    \E env \in Environments, a \in AgentArgs, middleware \in { NoChars, Some(<<"logging">>) } :
        Create("create_agent_with_custom_middleware", env, a,
               create_agent_with_custom_middleware(db, env, middleware, "You are an advisor.",
                   a.model, a.enable_checkpointing, a.checkpoint_db_path))

\* result = run_agent_task(task, model)
RunAgentTask ==
    \E env \in Environments, a \in AgentArgs, r \in AgentResults :
        Create("run_agent_task", env, [model |-> a.model, agent |-> r],
               run_agent_task(db, env, "Write a hello world function in Python", a.model, r))

CreateAgentWithSessionMemory ==
    \E env \in Environments, a \in AgentArgs :
        Create("create_agent_with_session_memory", env,
               [model |-> a.model, checkpoint_db_path |-> a.checkpoint_db_path],
               create_agent_with_session_memory(db, env, a.model, a.checkpoint_db_path))

AgentNext ==
    \/ CreateAgent
    \/ CreateAgentWithCustomMiddleware
    \/ RunAgentTask
    \/ CreateAgentWithSessionMemory
    \/ StartMerchantSession

AgentSpec == Init /\ [][AgentNext]_vars

\* One of the two functions was called
C28_Created == Called("create_agent") \/ Called("create_agent_with_custom_middleware")

\* s is word in some letter case; upper is word in capitals
C28_Spells(s, word, upper) ==
    /\ Len(s) = Len(word)
    /\ \A i \in 1..Len(s) : s[i] = word[i] \/ s[i] = upper[i]

\* ENABLE_CHECKPOINTING is set to true, 1 or yes in some letter case
C28_EnvEnables(env) ==
    /\ env.ENABLE_CHECKPOINTING.set
    /\ LET s == env.ENABLE_CHECKPOINTING.value
       IN  \/ C28_Spells(s, <<"t", "r", "u", "e">>, <<"T", "R", "U", "E">>)
           \/ s = <<"1">>
           \/ C28_Spells(s, <<"y", "e", "s">>, <<"Y", "E", "S">>)

\* C28: the agent is given a checkpointer if and only if checkpointing is
\* enabled: by the argument enable_checkpointing when it is given, whatever
\* the environment says, and otherwise exactly when ENABLE_CHECKPOINTING is
\* set to true, 1 or yes in any letter case.
C28_CheckpointerIffEnabled ==
    C28_Created /\ ret.exc = "none" =>
        LET arg == op.args.enable_checkpointing
            given == ret.value.checkpointer # no_checkpointer
        IN  /\ ret.calls[Len(ret.calls)] = ret.value
            /\ arg.set => (given <=> arg.value)
            /\ ~arg.set => (given <=> C28_EnvEnables(op.env))

\* the argument left out and the environment saying Yes in mixed case
C28_Witness ==
    /\ Called("create_agent")
    /\ ~op.args.enable_checkpointing.set
    /\ op.env.ENABLE_CHECKPOINTING = Some(<<"T", "r", "u", "e">>)
    /\ ret.exc = "none"
    /\ ret.value.checkpointer # no_checkpointer

\* the argument False against an environment that says true
C28_OverrideWitness ==
    /\ Called("create_agent")
    /\ op.args.enable_checkpointing = Some(FALSE)
    /\ op.env.ENABLE_CHECKPOINTING = Some(<<"t", "r", "u", "e">>)
    /\ ret.exc = "none"
    /\ ret.value.checkpointer = no_checkpointer

\* The database path the claim names: the argument if given, else the
\* environment variable, else checkpoints.db
C29_Path ==
    IF op.args.checkpoint_db_path.set THEN op.args.checkpoint_db_path.value
    ELSE IF op.env.CHECKPOINT_DB_PATH.set THEN op.env.CHECKPOINT_DB_PATH.value
    ELSE "checkpoints.db"

\* C29: with checkpointing enabled create_agent makes the checkpointer with
\* SqliteSaver.from_conn_string on the path chosen (the argument, else
\* CHECKPOINT_DB_PATH, else checkpoints.db) and gives that checkpointer to the
\* agent.
C29_FromConnString ==
    Called("create_agent") /\ ret.exc = "none"
        /\ checkpointing_enabled(op.env, op.args.enable_checkpointing) =>
            /\ ret.value.checkpointer.made_by = "SqliteSaver.from_conn_string"
            /\ \E i \in 1..Len(ret.calls) :
                  /\ ret.calls[i].fn = "SqliteSaver.from_conn_string"
                  /\ ret.calls[i].path = C29_Path

\* C30: with OPENAI_API_KEY missing or empty both functions raise ValueError
\* with a message that names the variable, having made no call: no model, no
\* database connection and no agent, and the database file is not created;
\* with the key there they raise nothing.
C30_KeyCheckedFirst ==
    C28_Created =>
        IF ~op.env.OPENAI_API_KEY.set \/ op.env.OPENAI_API_KEY.value = ""
        THEN /\ ret.exc = "ValueError"
             /\ ret.message[1] = "OPENAI_API_KEY"
             /\ ret.value = None
             /\ ret.calls = <<>>
             /\ db = no_database
        ELSE ret.exc = "none"

\* checkpointing asked for and the key set to the empty string
C30_Witness ==
    /\ Called("create_agent_with_custom_middleware")
    /\ op.env.OPENAI_API_KEY = Some("")
    /\ op.args.enable_checkpointing = Some(TRUE)
    /\ ~op.args.checkpoint_db_path.set
    /\ ~op.env.CHECKPOINT_DB_PATH.set
    /\ ret.exc = "ValueError"

\* The agent that calls made: the one create_deep_agent returned
C31_Agent(calls) ==
    calls[CHOOSE i \in 1..Len(calls) : calls[i].fn = "create_deep_agent"]

\* C31: the agent run_agent_task creates and invokes has no checkpointer and
\* no database is opened for it, whatever ENABLE_CHECKPOINTING is; the agent
\* create_agent_with_session_memory returns and the one start_merchant_session
\* returns have a checkpointer, whatever ENABLE_CHECKPOINTING is.
C31_CheckpointerByFunction ==
    /\ Called("run_agent_task") /\ ret.exc # "ValueError" =>
          /\ C31_Agent(ret.calls).checkpointer = no_checkpointer
          /\ ret.calls[Len(ret.calls)].fn = "invoke"
          /\ ret.calls[Len(ret.calls)].agent = C31_Agent(ret.calls)
          /\ \A i \in 1..Len(ret.calls) : ret.calls[i].fn # "sqlite3.connect"
          /\ db = no_database
    /\ Called("create_agent_with_session_memory") /\ ret.exc = "none" =>
          /\ ret.value.checkpointer # no_checkpointer
          /\ ret.value.checkpointer.made_by = "SqliteSaver"
    /\ Called("start_merchant_session") =>
          /\ ret.exc = "none"
          /\ ret.agent.checkpointer # no_checkpointer

\* a task run while the environment says TRUE
C31_Witness ==
    /\ Called("run_agent_task")
    /\ op.env.ENABLE_CHECKPOINTING = Some(<<"T", "R", "U", "E">>)
    /\ ret.exc = "none"
    /\ C31_Agent(ret.calls).checkpointer = no_checkpointer

\* a session started while the environment says false
C31_SessionWitness ==
    /\ Called("start_merchant_session")
    /\ op.env.ENABLE_CHECKPOINTING = Some(<<"f", "a", "l", "s", "e">>)
    /\ ret.agent.checkpointer # no_checkpointer

\* C32: after a manager operation no list or map of the state returned is the
\* very object the state passed in holds.
C32_NoSharedContainer ==
    op.name \in UpdateNames => shared = {}

\* C33: a session started after another one has a thread id that is not the
\* thread id of that one, also when both are for the same merchant and
\* started within the same second.
C33_DistinctThreadIds ==
    [][ (cur # 0 /\ nops' = nops + 1 /\ op'.name = "start_merchant_session")
           => ret'.thread_id # ThreadId ]_vars

----------------------------------------------------------------------------
(* Two callers of one session that do not wait for each other *)

\* Both callers read the state the session has, each calls
\* increment_query_count on it, and the session keeps the result of one of
\* them (the one stored last); both results are there to look at
ConcurrentIncrements ==
    \E keep \in {1, 2} :
        LET r1 == increment_query_count(heap, cur, clock)
            r2 == increment_query_count(r1.heap, cur, clock)
            results == <<r1.ret, r2.ret>>
            order == Live(r2.heap, results)
        IN  /\ cur # 0
            /\ nops + 2 <= MaxOps
            /\ heap' = Collect(r2.heap, results)
            /\ cur' = Addr(order, results[keep])
            /\ intact' = (Deep(r2.heap, cur) = Deep(heap, cur))
            /\ shared' = SharedFields(r2.heap, r1.ret, r2.ret)
            /\ fresh' = (r1.ret # r2.ret)
            /\ op' = [name |-> "increment_query_count", args |-> <<"concurrent", keep>>]
            /\ ret' = <<Addr(order, r1.ret), Addr(order, r2.ret)>>
            /\ nops' = nops + 2
            /\ UNCHANGED <<clock, init, nticks, db>>

RaceNext ==
    \/ Tick
    \/ Initialize
    \/ IncrementQueryCount
    \/ ConcurrentIncrements

RaceSpec == Init /\ [][RaceNext]_vars

\* C34: two increment_query_count calls made on the same state with
\* total_queries n both return a state with n + 1, in two objects, so the
\* session has n + 1 after two calls whichever result it keeps; a call made on
\* the result of the call before it adds one; total_queries is never more than
\* the number of calls, and once it is less it stays less.
C34_LostUpdate ==
    [][ /\ (cur # 0 /\ nops' = nops + 2) =>
              /\ heap'[ret'[1]].total_queries = TotalQueries + 1
              /\ heap'[ret'[2]].total_queries = TotalQueries + 1
              /\ ret'[1] # ret'[2]
              /\ TotalQueries' = TotalQueries + 1
        /\ (cur # 0 /\ nops' = nops + 1) => TotalQueries' = TotalQueries + 1
        /\ (cur # 0 /\ TotalQueries = nops /\ nops' = nops + 1) => TotalQueries' = nops'
        /\ cur' # 0 => TotalQueries' <= nops'
        /\ (cur # 0 /\ TotalQueries < nops) => TotalQueries' < nops' ]_vars

\* one increment lost: three calls made, two of them on the same state
C34_Witness ==
    /\ Started
    /\ nops = 3
    /\ TotalQueries = 2
    /\ op.args = <<>>

\* The fields no operation writes after initialization
C35_Fixed ==
    << State.started_at, State.advisor_id, State.merchant_id, State.merchant_name,
       State.segment, Messages, WorkingData >>

\* C35: in every step of a session started_at, advisor_id, merchant_id,
\* merchant_name, segment, messages and working_data stay as they are;
\* cache_data, add_topic, add_recommendation, add_pending_question and
\* add_advisor_note leave total_queries and last_activity_at as they are; and
\* last_activity_at and total_queries change only in a step of
\* increment_query_count.
C35_OwnFieldsOnly ==
    [][ (cur # 0 /\ cur' # 0) =>
           /\ C35_Fixed' = C35_Fixed
           /\ (nops' = nops + 1 /\ op'.name \in UpdateNames \ {"increment_query_count"}) =>
                 /\ TotalQueries' = TotalQueries
                 /\ State'.last_activity_at = State.last_activity_at
           /\ (TotalQueries' # TotalQueries \/ State'.last_activity_at # State.last_activity_at) =>
                 op'.name = "increment_query_count" ]_vars

\* data cached some time after the last query, which stays the last activity
C35_Witness ==
    /\ Called("cache_data")
    /\ TotalQueries > 0
    /\ clock > LastActivityAt
    /\ fromisoformat(Get(CachedAt, op.args[1])) > LastActivityAt

\* The last call was a lookup that found the data type and gave nothing: the
\* entry is expired
C36_ExpiredMiss ==
    /\ Called("get_cached_data")
    /\ ret.exc = "none"
    /\ ret.value = None
    /\ op.args.data_type \in Keys(CachedData)

\* The data type looked up is in both maps of the cache and in every view of it
C36_Listed ==
    LET t == op.args.data_type IN
    /\ t \in Keys(CachedData)
    /\ t \in Keys(CachedAt)
    /\ t \in Elems(get_session_summary(heap, cur).ret.value.cached_data_types)
    /\ t \in Elems(export_session_summary(heap, cur, clock).ret.value.cached_data_types)
    /\ LET snapshot == create_session_snapshot(heap, cur, ThreadId, clock).ret.value
       IN  /\ <<"cache_age_", t>> \in C23_AgeKeys(snapshot)
           /\ Value(snapshot, <<"session.cached_types_count">>) = Len(CachedData)

\* C36: a step of get_cached_data leaves the state as it is; after a lookup
\* that missed as expired the data type is still in cached_data and
\* cached_at, in cached_data_types of the summary and of the export, and in
\* the snapshot and its count; no step takes a data type out of the cache,
\* and the time of an entry changes only in a cache_data call for its type.
C36_LookupKeepsEntry ==
    [][ cur # 0 =>
          /\ (nops' = nops + 1 /\ op'.name = "get_cached_data") =>
                 Deep(heap', cur') = Deep(heap, cur)
          /\ C36_ExpiredMiss' => C36_Listed'
          /\ \A t \in Keys(CachedData) :
                 /\ t \in Keys(CachedData') /\ t \in Keys(CachedAt')
                 /\ Get(CachedAt', t) # Get(CachedAt, t) =>
                       op'.name = "cache_data" /\ op'.args[1] = t ]_vars

\* a lookup has just missed on an expired entry, which every view still lists
C36_Witness ==
    /\ C36_ExpiredMiss
    /\ C36_Listed
    /\ intact

-----------------------------------------------------------------------------
(* Lookups as time passes: a session, its cache, the clock, and lookups with *)
(* the configurations above and with one whose entries expire at once.       *)

\* a caller's configuration that keeps a profile for no time at all
expiring_config == << [k |-> <<"profile", "_ttl_seconds">>, v |-> 0] >>

ExpiryConfigs == CacheConfigs \cup { expiring_config }

LookUpCachedData ==
    \E t \in DataTypes, cfg \in ExpiryConfigs :
        Query("get_cached_data",
              [data_type |-> t, cache_config |-> cfg, tracing |-> FALSE, fault |-> "none"],
              get_cached_data(heap, cur, t, cfg, clock, FALSE, "none"), {})

ExpiryNext ==
    \/ Tick
    \/ Initialize
    \/ CacheData
    \/ LookUpCachedData

ExpirySpec == Init /\ [][ExpiryNext]_vars

\* What a lookup of data type t with configuration cfg gives in this state, now
C37_Lookup(t, cfg) == get_cached_data(heap, cur, t, cfg, clock, FALSE, "none").ret

\* The lookup misses on an entry that is there: the entry is expired
C37_Expired(t, cfg) ==
    /\ cur # 0
    /\ t \in Keys(CachedData)
    /\ C37_Lookup(t, cfg).exc = "none"
    /\ C37_Lookup(t, cfg).value = None

\* The lookup hits
C37_Hit(t, cfg) ==
    /\ cur # 0
    /\ C37_Lookup(t, cfg).exc = "none"
    /\ C37_Lookup(t, cfg).value # None

\* C37: expiry is permanent. When a lookup of data type t with a given
\* configuration misses as expired, then after any step (the clock never
\* goes back) that leaves the entry's time as it was the same lookup still
\* misses as expired, and the lookup hits after the step only if the step is
\* a cache_data call for t.
C37_ExpiryIsPermanent ==
    [][ \A t \in DataTypes, cfg \in ExpiryConfigs :
          C37_Expired(t, cfg) =>
             /\ clock' >= clock
             /\ (cur' # 0 /\ t \in Keys(CachedAt') /\ Get(CachedAt', t) = Get(CachedAt, t)) =>
                    C37_Expired(t, cfg)'
             /\ C37_Hit(t, cfg)' =>
                    nops' = nops + 1 /\ op'.name = "cache_data" /\ op'.args[1] = t ]_vars

\* a lookup has just missed on an entry that was already expired at an
\* earlier time of the clock, with the same configuration
C37_Witness ==
    /\ C36_ExpiredMiss
    /\ \E earlier \in 0..(clock - 1) :
          LET r == get_cached_data(heap, cur, op.args.data_type, op.args.cache_config, earlier, FALSE, "none").ret
          IN  /\ earlier >= fromisoformat(Get(CachedAt, op.args.data_type))
              /\ r.exc = "none"
              /\ r.value = None

\* C38: when agent.invoke raises inside run_query_in_session the call raises
\* the agent's error and returns neither a response nor a state, and the
\* state the caller holds is what it was, total_queries and last_activity_at
\* included; and whatever the call raises, the caller's state is unchanged.
C38_FailedQueryNotCounted ==
    [][ (cur # 0 /\ nops' = nops + 1 /\ op'.name = "run_query_in_session") =>
          /\ (op'.args.agent.raises /\ Len(ret'.invoked) > 0) =>
                 /\ ret'.exc = "AgentError"
                 /\ ret'.invoked = << invoke(op'.args.query, op'.args.thread_id) >>
          /\ ret'.exc # "none" =>
                 /\ ret'.state = 0
                 /\ ret'.value = None
                 /\ intact'
                 /\ Deep(heap', cur') = Deep(heap, cur)
                 /\ TotalQueries' = TotalQueries
                 /\ State'.last_activity_at = State.last_activity_at ]_vars

\* the agent raised in a query made some time after the session's last
\* activity, so counting it would have shown in both fields
C38_Witness ==
    /\ Called("run_query_in_session")
    /\ op.args.agent.raises
    /\ Len(ret.invoked) = 1
    /\ ret.exc = "AgentError"
    /\ TotalQueries = op.args.total_queries
    /\ clock > LastActivityAt

\* C39: clear_session(t) takes the checkpoints of thread t out of the table,
\* all of them and no other, and returns how many they were; the checkpoints
\* of every other thread stay as they were, in number and in order, and
\* get_session_info gives the same for them; after the call
\* get_session_history(t) is empty, get_session_info(t) is None and
\* list_active_sessions does not list t.
C39_ClearsOneThread ==
    [][ (nops' = nops + 1 /\ op'.name = "clear_session") =>
          /\ ret'.exc = "none"
          /\ ret'.value = Len(RowsOf(db.rows, op'.args[1]))
          /\ db'.rows = SelectSeq(db.rows, LAMBDA r : r.thread_id # op'.args[1])
          /\ \A u \in Elems(ThreadIds) \ {op'.args[1]} :
                 /\ RowsOf(db'.rows, u) = RowsOf(db.rows, u)
                 /\ get_session_history(db', u).ret = get_session_history(db, u).ret
                 /\ get_session_info(db', u).ret = get_session_info(db, u).ret
                 /\ Len(RowsOf(db.rows, u)) > 0 =>
                       /\ get_session_info(db', u).ret.value.checkpoint_count = Len(RowsOf(db.rows, u))
                       /\ u \in Elems(list_active_sessions(db').ret.value)
          /\ get_session_history(db', op'.args[1]).ret.value = <<>>
          /\ get_session_info(db', op'.args[1]).ret.value = None
          /\ op'.args[1] \notin Elems(list_active_sessions(db').ret.value) ]_vars

\* a thread with checkpoints has been cleared while another thread has some
C39_Witness ==
    /\ Called("clear_session")
    /\ ret.value > 0
    /\ Len(db.rows) > 0
    /\ Len(RowsOf(db.rows, op.args[1])) = 0

====
